---------------------------- MODULE Spec2Model ----------------------------
(***************************************************************************)
(* Model of the conjunction screening, risk classification, maneuver-time  *)
(* estimation and propulsion-aware ISL decision engine of src/PYfinal.py,  *)
(* with the constellation response and the request handlers of             *)
(* src/web_api.py.                                                         *)
(*                                                                         *)
(* Numbers.  The program computes with Python floats; the model computes   *)
(* with exact integers in fixed units:                                     *)
(*   distances between objects   tenths of a km     (1.0 km  = 10)         *)
(*   propellant level            thousandths        (0.15    = 150)        *)
(*   bandwidth fraction          hundredths         (0.20    = 20)         *)
(*   lengths of the estimator    millimetres        (1000 m  = 1000000)    *)
(*   speeds of the estimator     millimetres/second (0.001 m/s = 1)        *)
(*   clock readings, timestamps  seconds                                   *)
(*   peer capacity and fuel      hundredths of a percent as sampled        *)
(* A lead time is an exact fraction (record Quantity), or infinite;        *)
(* comparisons against hour and day thresholds are done on the fraction.   *)
(* Inputs are finite numbers; NaN and infinite arguments are not modelled. *)
(***************************************************************************)
EXTENDS Integers, Sequences, FiniteSets, TLC

VARIABLES
    decision,      \* the call of the ISL decision engine: arguments and returned Dict
    maneuver,      \* the call of calculate_maneuver_time: arguments and returned Dict
    satellites,    \* SatelliteAnalyzer.satellites: the catalog's names in dict order
    clock,         \* the last reading of self.ts.now(), in seconds
    screen,        \* the call of analyze_collision_risk: arguments, locals, result
    find,          \* the call of find_collision_cases: arguments, locals, result
    network_nodes, \* ISLControlSystem.network_nodes
    current_routes, \* ISLControlSystem.current_routes
    constellation, \* the call of simulate_constellation_response: arguments, locals, result
    analyzer,      \* web_api's global analyzer
    response       \* web_api: the last request handled and the response it was given

vars ==
    <<decision, maneuver, satellites, clock, screen, find, network_nodes, current_routes,
      constellation, analyzer, response>>

(***************************************************************************)
(* Quantities of time                                                      *)
(***************************************************************************)
\* float('inf'), the initial time_to_maneuver_hours
Infinite == [inf |-> TRUE, num |-> 0, den |-> 1, per |-> 1]

\* The exact value num/(den*per), den > 0 and per > 0.  per is the unit
\* conversion applied so far: 1 for the quotient itself, 60 after "/ 60",
\* 3600 after "/ 60 / 60", 86400 after "/ 60 / 60 / 24".
Quantity(num, den, per) == [inf |-> FALSE, num |-> num, den |-> den, per |-> per]

\* q < H for a whole number H >= 1:
\* num/(den*per) < H  <=>  num/(per*H) < den  <=>  floor(num/(per*H)) < den
Lt(q, H) == (~q.inf) /\ ((q.num \div (q.per * H)) < q.den)

\* The division left out: the quantity keeps the unit it had.
DivByUnconverted(q, c) == q

\* q / c for a whole number c >= 1
DivBy(q, c) == [q EXCEPT !.per = q.per * c]

(***************************************************************************)
(* SatelliteAnalyzer.calculate_maneuver_time                               *)
(*   v_rel, k in mm/s; R_req, sigma_0 in mm; n a whole number.             *)
(***************************************************************************)
ErrVelocity == "La velocidad relativa debe ser positiva"
ErrSafetyDistance == "La distancia de seguridad debe ser positiva"
ErrUncertainty == "La incertidumbre posicional no puede ser negativa"
ErrInfeasible == "Configuracion invalida"
ErrCalculo == "Error en calculo"

Abs(x) == IF x < 0 THEN -x ELSE x

\* The evaluation with the fourth test made on t_hours instead of t_days.
EvaluacionDaysAsHours(t_hours, t_days) ==
    IF Lt(t_hours, 1) THEN
        [criticidad |-> "CRITICO", recomendacion |-> "Maniobra inmediata requerida"]
    ELSE IF Lt(t_hours, 6) THEN
        [criticidad |-> "ALTO", recomendacion |-> "Preparar maniobra en las proximas horas"]
    ELSE IF Lt(t_hours, 24) THEN
        [criticidad |-> "MEDIO", recomendacion |-> "Planificar maniobra para hoy"]
    ELSE IF Lt(t_hours, 7) THEN
        [criticidad |-> "BAJO", recomendacion |-> "Maniobra puede planificarse con anticipacion"]
    ELSE
        [criticidad |-> "MINIMO", recomendacion |-> "Tiempo suficiente para analisis detallado"]

\* criticidad and recomendacion from t_hours and t_days
Evaluacion(t_hours, t_days) ==
    IF Lt(t_hours, 1) THEN
        [criticidad |-> "CRITICO", recomendacion |-> "Maniobra inmediata requerida"]
    ELSE IF Lt(t_hours, 6) THEN
        [criticidad |-> "ALTO", recomendacion |-> "Preparar maniobra en las proximas horas"]
    ELSE IF Lt(t_hours, 24) THEN
        [criticidad |-> "MEDIO", recomendacion |-> "Planificar maniobra para hoy"]
    ELSE IF Lt(t_days, 7) THEN
        [criticidad |-> "BAJO", recomendacion |-> "Maniobra puede planificarse con anticipacion"]
    ELSE
        [criticidad |-> "MINIMO", recomendacion |-> "Tiempo suficiente para analisis detallado"]

\* The scenario computed whatever the caller's n.
EscenarioForAnyN(nombre, m, v_rel, R_req, sigma_0, k, n) ==
    IF (v_rel - m * k) > 0 /\ (R_req + m * sigma_0) # 0
    THEN << [nombre |-> nombre,
             tiempo_segundos |-> Quantity(R_req + m * sigma_0, v_rel - m * k, 1),
             tiempo_horas |-> Quantity(R_req + m * sigma_0, v_rel - m * k, 3600)] >>
    ELSE << >>

\* One alternative scenario with confidence factor m (2 or 1): appended when the
\* caller's n differs from m, the scenario's denominator is positive and the
\* computed time is truthy (not 0.0).
Escenario(nombre, m, v_rel, R_req, sigma_0, k, n) ==
    IF n # m /\ (v_rel - m * k) > 0 /\ (R_req + m * sigma_0) # 0
    THEN << [nombre |-> nombre,
             tiempo_segundos |-> Quantity(R_req + m * sigma_0, v_rel - m * k, 1),
             tiempo_horas |-> Quantity(R_req + m * sigma_0, v_rel - m * k, 3600)] >>
    ELSE << >>

\* The first three checks with the safety distance checked before the velocity.
ValidationErrorSafetyFirst(v_rel, R_req, sigma_0) ==
    IF R_req <= 0 THEN ErrSafetyDistance
    ELSE IF v_rel <= 0 THEN ErrVelocity
    ELSE IF sigma_0 < 0 THEN ErrUncertainty
    ELSE "none"

\* The first three checks of the try body, in the order of the code.
ValidationError(v_rel, R_req, sigma_0) ==
    IF v_rel <= 0 THEN ErrVelocity
    ELSE IF R_req <= 0 THEN ErrSafetyDistance
    ELSE IF sigma_0 < 0 THEN ErrUncertainty
    ELSE "none"

\* The feasibility check letting a zero denominator through.
InfeasibleStrict(denominador) == denominador < 0

\* The feasibility check on the denominator.
Infeasible(denominador) == denominador <= 0

\* The numerator with the uncertainty subtracted instead of added.
NumeradorSignError(R_req, sigma_0, n) == R_req - n * sigma_0

\* numerador = R_req + n * sigma_0
Numerador(R_req, sigma_0, n) == R_req + n * sigma_0

\* denominador = v_rel - n * k
Denominador(v_rel, k, n) == v_rel - n * k

\* The body of the try block.
ManeuverBody(v_rel, R_req, sigma_0, k, n) ==
    LET numerador == Numerador(R_req, sigma_0, n)
        denominador == Denominador(v_rel, k, n)
        t_maneuver_seconds == Quantity(numerador, denominador, 1)
        t_minutes == DivBy(t_maneuver_seconds, 60)
        t_hours == DivBy(t_minutes, 60)
        t_days == DivBy(t_hours, 24)
    IN  IF ValidationError(v_rel, R_req, sigma_0) # "none" THEN
            [error |-> ValidationError(v_rel, R_req, sigma_0)]
        ELSE IF Infeasible(denominador) THEN
            [error |-> ErrInfeasible,
             reason |-> "La velocidad relativa es insuficiente comparada con el crecimiento de incertidumbre",
             recommendation |-> "Reducir el factor de confianza (n) o mejorar la precision orbital (reducir k)",
             v_rel |-> v_rel,
             n_k |-> n * k,
             deficit |-> Abs(denominador)]
        ELSE
            [parametros |-> [v_rel_ms |-> v_rel, R_req_m |-> R_req, sigma_0_m |-> sigma_0,
                             k_ms |-> k, factor_confianza |-> n],
             tiempo_maniobra |-> [segundos |-> t_maneuver_seconds, minutos |-> t_minutes,
                                  horas |-> t_hours, dias |-> t_days],
             evaluacion |-> Evaluacion(t_hours, t_days),
             componentes_calculo |-> [numerador |-> numerador, denominador |-> denominador,
                                      margen_seguridad |-> denominador - n * k],
             escenarios_alternativos |->
                 Escenario("Conservador (2s)", 2, v_rel, R_req, sigma_0, k, n)
                 \o Escenario("Agresivo (1s)", 1, v_rel, R_req, sigma_0, k, n)]

\* calculate_maneuver_time: the try body, or the catch-all handler's result when
\* an exception is raised inside it (raised: an unexpected failure of the
\* interpreter such as MemoryError; the arithmetic on finite floats raises none).
CalculateManeuverTime(v_rel, R_req, sigma_0, k, n, raised) ==
    IF raised THEN [error |-> ErrCalculo]
    ELSE ManeuverBody(v_rel, R_req, sigma_0, k, n)

IsError(result) == "error" \in DOMAIN result

(***************************************************************************)
(* ISLControlSystem: the decision engine                                   *)
(*   propellant in thousandths, bandwidth_allocation in hundredths.        *)
(***************************************************************************)
\* The command before any branch of the decision tree has assigned it.
Unbound == "UNBOUND"

\* q <= H for a whole number H >= 1: ceil(num/(per*H)) <= den
Le(q, H) == (~q.inf) /\ ((-((-q.num) \div (q.per * H))) <= q.den)

\* Urgency with every boundary compared by <= instead of <.
UrgencyInclusive(time_hours) ==
    IF Le(time_hours, 1) THEN "CRITICO_INMEDIATO"
    ELSE IF Le(time_hours, 6) THEN "CRITICO_CORTO_PLAZO"
    ELSE IF Le(time_hours, 24) THEN "MODERADO"
    ELSE "BAJO"

\* Urgency class of a lead time in hours.
Urgency(time_hours) ==
    IF Lt(time_hours, 1) THEN "CRITICO_INMEDIATO"
    ELSE IF Lt(time_hours, 6) THEN "CRITICO_CORTO_PLAZO"
    ELSE IF Lt(time_hours, 24) THEN "MODERADO"
    ELSE "BAJO"

\* The prefix test narrowed to the IMMEDIATE class alone.
StartsWithCriticoInmediato(urgency) == urgency = "CRITICO_INMEDIATO"

\* urgency.startswith('CRITICO')
StartsWithCritico(urgency) == urgency \in {"CRITICO_INMEDIATO", "CRITICO_CORTO_PLAZO"}

\* The decision tree without its final else: the names stay unbound for BAJO.
DecisionTreeNoFinalElse(urgency, propellant) ==
    IF urgency \in {"CRITICO_INMEDIATO", "CRITICO_CORTO_PLAZO"} THEN
        IF propellant > 150 THEN
            [command |-> "THRUST_IMMINENT", network_priority |-> "HIGH_REROUTE",
             bandwidth_allocation |-> 20]
        ELSE IF propellant > 50 THEN
            [command |-> "THRUST_CONDITIONAL", network_priority |-> "MEDIUM_REROUTE",
             bandwidth_allocation |-> 10]
        ELSE
            [command |-> "THRUST_IMPOSSIBLE", network_priority |-> "EMERGENCY_REROUTE",
             bandwidth_allocation |-> 5]
    ELSE IF urgency = "MODERADO" THEN
        IF propellant > 250 THEN
            [command |-> "THRUST_PLANNED", network_priority |-> "PLANNED_REROUTE",
             bandwidth_allocation |-> 80]
        ELSE
            [command |-> "THRUST_PRESERVE", network_priority |-> "FUEL_CONSERVATION",
             bandwidth_allocation |-> 60]
    ELSE
        [command |-> Unbound, network_priority |-> Unbound, bandwidth_allocation |-> -1]

\* The decision tree with the MODERADO band compared by >= instead of >.
DecisionTreePlannedAtBoundary(urgency, propellant) ==
    IF urgency \in {"CRITICO_INMEDIATO", "CRITICO_CORTO_PLAZO"} THEN
        IF propellant > 150 THEN
            [command |-> "THRUST_IMMINENT", network_priority |-> "HIGH_REROUTE",
             bandwidth_allocation |-> 20]
        ELSE IF propellant > 50 THEN
            [command |-> "THRUST_CONDITIONAL", network_priority |-> "MEDIUM_REROUTE",
             bandwidth_allocation |-> 10]
        ELSE
            [command |-> "THRUST_IMPOSSIBLE", network_priority |-> "EMERGENCY_REROUTE",
             bandwidth_allocation |-> 5]
    ELSE IF urgency = "MODERADO" THEN
        IF propellant >= 250 THEN
            [command |-> "THRUST_PLANNED", network_priority |-> "PLANNED_REROUTE",
             bandwidth_allocation |-> 80]
        ELSE
            [command |-> "THRUST_PRESERVE", network_priority |-> "FUEL_CONSERVATION",
             bandwidth_allocation |-> 60]
    ELSE
        [command |-> "ROUTE_NORMAL", network_priority |-> "NORMAL",
         bandwidth_allocation |-> 100]

\* The decision tree: command, network_priority and bandwidth_allocation.
DecisionTree(urgency, propellant) ==
    IF urgency \in {"CRITICO_INMEDIATO", "CRITICO_CORTO_PLAZO"} THEN
        IF propellant > 150 THEN
            [command |-> "THRUST_IMMINENT", network_priority |-> "HIGH_REROUTE",
             bandwidth_allocation |-> 20]
        ELSE IF propellant > 50 THEN
            [command |-> "THRUST_CONDITIONAL", network_priority |-> "MEDIUM_REROUTE",
             bandwidth_allocation |-> 10]
        ELSE
            [command |-> "THRUST_IMPOSSIBLE", network_priority |-> "EMERGENCY_REROUTE",
             bandwidth_allocation |-> 5]
    ELSE IF urgency = "MODERADO" THEN
        IF propellant > 250 THEN
            [command |-> "THRUST_PLANNED", network_priority |-> "PLANNED_REROUTE",
             bandwidth_allocation |-> 80]
        ELSE
            [command |-> "THRUST_PRESERVE", network_priority |-> "FUEL_CONSERVATION",
             bandwidth_allocation |-> 60]
    ELSE
        [command |-> "ROUTE_NORMAL", network_priority |-> "NORMAL",
         bandwidth_allocation |-> 100]

\* The probability taken from the propellant itself instead of the propellant
\* spent: min(1.0, propellant + 0.5), as hundredths.
ManeuverProbabilityOfPropellant(propellant) ==
    LET x == IF propellant + 500 < 1000 THEN propellant + 500 ELSE 1000
    IN  (x + 5) \div 10

\* f"{x:.2f}" of x = min(1.0, (1.0 - propellant) + 0.5), as hundredths: the
\* nearest hundredth of x thousandths (the model's propellant levels give no tie).
ManeuverProbability(propellant) ==
    LET x == IF 1500 - propellant < 1000 THEN 1500 - propellant ELSE 1000
    IN  (x + 5) \div 10

\* _generate_isl_protocol
GenerateIslProtocol(command, sat_local, sat_neighbor, urgency, propellant) ==
    [message_type |-> "ISL_COORDINATION",
     source |-> sat_local,
     destination |-> sat_neighbor,
     priority |-> IF StartsWithCritico(urgency) THEN "HIGH" ELSE "MEDIUM",
     payload |->
        IF command = "THRUST_IMMINENT" THEN
            [alert_type |-> "IMMINENT_MANEUVER", requested_action |-> "TAKE_TRAFFIC_LOAD",
             backup_required |-> TRUE, telemetry_sharing |-> TRUE]
        ELSE IF command = "THRUST_IMPOSSIBLE" THEN
            [alert_type |-> "PROPULSION_FAILURE", maneuver_capability |-> FALSE,
             requested_action |-> "EMERGENCY_BACKUP", position_alert |-> TRUE,
             ground_notification |-> TRUE]
        ELSE IF command = "ROUTE_NORMAL" THEN
            [alert_type |-> "STATUS_NORMAL", maneuver_capability |-> TRUE,
             requested_action |-> "MAINTAIN_NORMAL_OPS", health_check |-> TRUE]
        ELSE
            [alert_type |-> "CONDITIONAL_MANEUVER",
             maneuver_probability |-> ManeuverProbability(propellant),
             requested_action |-> "STANDBY_SUPPORT", monitoring_required |-> TRUE]]

\* _make_isl_decision
MakeIslDecision(sat_local, sat_neighbor, risk_level, time_hours, propellant, maneuver_data) ==
    LET urgency == Urgency(time_hours)
        d == DecisionTree(urgency, propellant)
    IN  [command |-> d.command,
         urgency_level |-> urgency,
         risk_assessment |-> risk_level,
         propellant |-> propellant,
         time_to_maneuver_hours |-> time_hours,
         network_priority |-> d.network_priority,
         bandwidth_allocation |-> d.bandwidth_allocation,
         target_satellite |-> sat_neighbor,
         isl_protocol |-> GenerateIslProtocol(d.command, sat_local, sat_neighbor,
                                              urgency, propellant),
         maneuver_data |-> maneuver_data,
         autonomous_decision |-> TRUE]

\* collision_risk_data.get(key, default)
Get(data, key, default) == IF key \in DOMAIN data THEN data[key] ELSE default

\* The encounter taken without looking at the distances: the first of the list.
FirstEncounter(close_encounters) == close_encounters[1]

\* min(close_encounters, key=lambda x: x['distance_km']): the first encounter of
\* least distance.
NearestEncounter(close_encounters) ==
    close_encounters[
        CHOOSE i \in 1..Len(close_encounters) :
            /\ \A j \in 1..Len(close_encounters) :
                   close_encounters[i].distance_km <= close_encounters[j].distance_km
            /\ \A j \in 1..(i - 1) :
                   close_encounters[j].distance_km > close_encounters[i].distance_km]

\* v_rel_estimate in mm/s from the nearest encounter's distance in tenths of a km.
VRelEstimate(distance_km) ==
    IF distance_km < 50 THEN 12000000
    ELSE IF distance_km < 200 THEN 8000000
    ELSE 3000000

\* The estimator called for any risk level, on the encounters alone.
NeedsManeuverAnyRisk(collision_risk_data) ==
    Get(collision_risk_data, "close_encounters", << >>) # << >>

\* Whether determine_thrust_aware_routing calls the estimator for this risk data.
NeedsManeuver(collision_risk_data) ==
    /\ Get(collision_risk_data, "risk_level", "BAJO") \in {"ALTO", "CRITICO"}
    /\ Get(collision_risk_data, "close_encounters", << >>) # << >>

\* The lead time read without the guard on 'error': an error result counts as
\* no time left.
TimeToManeuverZeroOnError(maneuver_analysis) ==
    IF ~IsError(maneuver_analysis) THEN maneuver_analysis.tiempo_maniobra.horas
    ELSE Quantity(0, 1, 1)

\* The lead time taken from the estimator's result: kept infinite on an error.
TimeToManeuver(maneuver_analysis) ==
    IF ~IsError(maneuver_analysis) THEN maneuver_analysis.tiempo_maniobra.horas
    ELSE Infinite

\* determine_thrust_aware_routing; raised: an exception is raised inside the
\* estimator's try block during this call.
DetermineThrustAwareRouting(sat_local_name, sat_neighbor_name, collision_risk_data, propellant_level, raised) ==
    LET risk_level == Get(collision_risk_data, "risk_level", "BAJO")
        close_encounters == Get(collision_risk_data, "close_encounters", << >>)
    IN  IF NeedsManeuver(collision_risk_data) THEN
            LET nearest_encounter == NearestEncounter(close_encounters)
                v_rel_estimate == VRelEstimate(nearest_encounter.distance_km)
                maneuver_analysis ==
                    CalculateManeuverTime(v_rel_estimate, 500000, 100000, 1, 3, raised)
            IN  MakeIslDecision(sat_local_name, sat_neighbor_name, risk_level,
                                TimeToManeuver(maneuver_analysis), propellant_level,
                                maneuver_analysis)
        ELSE
            MakeIslDecision(sat_local_name, sat_neighbor_name, risk_level,
                            Infinite, propellant_level, [none |-> TRUE])

(***************************************************************************)
(* The catalog and the screening call at rest                              *)
(***************************************************************************)
\* The loaded catalog: the keys of self.satellites in insertion order.
Catalog == <<"SAT_A", "SAT_B", "SAT_C">>

\* satellite2_name = None
None == "None"

ScreenIdle == [op |-> "none", pc |-> "idle"]

\* No call of find_collision_cases is pending.
FindIdle == [op |-> "none", pc |-> "idle"]

\* No call of simulate_constellation_response is pending.
ConstellationIdle == [op |-> "none", pc |-> "idle"]

\* analyzer = None, the value the module gives the global when it is loaded.
\* An analyzer object is [instance |-> n, satellites |-> len(analyzer.satellites)],
\* n >= 1 telling the objects apart.
NoAnalyzer == [instance |-> 0, satellites |-> 0]

\* No request has been handled yet.  Besides the response (code, success,
\* error, the two fields of /api/status) the record keeps what the handler
\* did: before is the global as the handler found it, calls the number of
\* calls it made on the analyzer, and succeeded tells whether some
\* /api/initialize request has answered with success so far.
NoResponse ==
    [endpoint |-> "none", code |-> 0, success |-> FALSE, error |-> "none",
     analyzer_initialized |-> FALSE, satellites_loaded |-> 0, before |-> NoAnalyzer,
     calls |-> 0, succeeded |-> FALSE]

\* No screening call is under way.
ScreeningIdle ==
    /\ satellites = Catalog
    /\ clock = 0
    /\ screen = ScreenIdle
    /\ find = FindIdle
    /\ network_nodes = << >>
    /\ current_routes = << >>
    /\ constellation = ConstellationIdle
    /\ analyzer = NoAnalyzer
    /\ response = NoResponse

(***************************************************************************)
(* Inputs of the decision engine                                           *)
(***************************************************************************)
\* Longest close_encounters list handed to the decision engine.
MaxEncounters == 2

\* Propellant levels in thousandths, on and around every band boundary.
PropellantLevels == {0, 30, 49, 50, 51, 100, 150, 151, 250, 251, 503, 600, 1000}

\* Lead times in hours handed to _make_isl_decision, on and around every
\* urgency boundary, with float('inf') and a negative value.
LeadTimes ==
    {Infinite, Quantity(-1, 1, 1), Quantity(1, 2, 1), Quantity(99, 100, 1),
     Quantity(1, 1, 1), Quantity(599, 100, 1), Quantity(6, 1, 1),
     Quantity(2399, 100, 1), Quantity(24, 1, 1), Quantity(100, 1, 1)}

\* Encounter distances in tenths of a km, on and around the velocity buckets.
EncounterDistances == {5, 49, 50, 199, 200}

RiskLevels == {"BAJO", "MEDIO", "ALTO", "CRITICO"}

SeqsUpTo(S, n) == UNION {[1..m -> S] : m \in 0..n}

Encounters == SeqsUpTo({[distance_km |-> d] : d \in EncounterDistances}, MaxEncounters)

\* collision_risk_data: any Dict, with or without each of the two keys read.
RiskData ==
    {[risk_level |-> r, close_encounters |-> e] : r \in RiskLevels, e \in Encounters}
    \cup {[close_encounters |-> e] : e \in Encounters}
    \cup {[risk_level |-> r] : r \in RiskLevels}

NoData == [none |-> TRUE]

(***************************************************************************)
(* The decision engine applied to its inputs                               *)
(***************************************************************************)
ManeuverIdle == [op |-> "none", pc |-> "idle"]

\* The calls of _make_isl_decision about to be made.
MakeIslDecisionCalls ==
    {[op |-> "_make_isl_decision", pc |-> "call", time_hours |-> t, propellant |-> p,
      data |-> [risk_level |-> r], raised |-> FALSE, result |-> NoData] :
        t \in LeadTimes, p \in PropellantLevels, r \in RiskLevels}

\* The calls of determine_thrust_aware_routing about to be made; raised tells
\* whether the estimator's try block will raise during the call.
RoutingCalls ==
    {[op |-> "determine_thrust_aware_routing", pc |-> "call", time_hours |-> Infinite,
      propellant |-> p, data |-> c[1], raised |-> c[2], result |-> NoData] :
        p \in PropellantLevels,
        c \in {x \in RiskData \X BOOLEAN : x[2] => NeedsManeuver(x[1])}}

InitDecision ==
    /\ decision \in MakeIslDecisionCalls \cup RoutingCalls
    /\ maneuver = ManeuverIdle
    /\ ScreeningIdle

\* The call of _make_isl_decision is made and returns.
MakeIslDecisionCall ==
    /\ decision.op = "_make_isl_decision" /\ decision.pc = "call"
    /\ decision' = [decision EXCEPT
           !.pc = "done",
           !.result = MakeIslDecision("SAT_LOCAL", "IENAI_SAT_02", decision.data.risk_level,
                                      decision.time_hours, decision.propellant, NoData)]
    /\ UNCHANGED <<maneuver, satellites, clock, screen, find, network_nodes, current_routes,
                 constellation, analyzer, response>>

\* The call of determine_thrust_aware_routing is made and returns.
DetermineThrustAwareRoutingCall ==
    /\ decision.op = "determine_thrust_aware_routing" /\ decision.pc = "call"
    /\ decision' = [decision EXCEPT
           !.pc = "done",
           !.result = DetermineThrustAwareRouting("SAT_LOCAL", "IENAI_SAT_02", decision.data,
                                                  decision.propellant, decision.raised)]
    /\ UNCHANGED <<maneuver, satellites, clock, screen, find, network_nodes, current_routes,
                 constellation, analyzer, response>>

NextDecision == MakeIslDecisionCall \/ DetermineThrustAwareRoutingCall

SpecDecision == InitDecision /\ [][NextDecision]_vars

(***************************************************************************)
(* Properties of the decision engine (checked under SpecDecision)          *)
(***************************************************************************)
DecisionDone == decision.pc = "done"

\* The rows of the decision table: command, network priority, bandwidth.
RowImminent == <<"THRUST_IMMINENT", "HIGH_REROUTE", 20>>
RowConditional == <<"THRUST_CONDITIONAL", "MEDIUM_REROUTE", 10>>
RowImpossible == <<"THRUST_IMPOSSIBLE", "EMERGENCY_REROUTE", 5>>
RowPlanned == <<"THRUST_PLANNED", "PLANNED_REROUTE", 80>>
RowPreserve == <<"THRUST_PRESERVE", "FUEL_CONSERVATION", 60>>
RowNormal == <<"ROUTE_NORMAL", "NORMAL", 100>>

TableRows == {RowImminent, RowConditional, RowImpossible, RowPlanned, RowPreserve, RowNormal}

\* The row a returned decision carries.
RowOf(r) == <<r.command, r.network_priority, r.bandwidth_allocation>>

\* q < H stated on the quotient: floor(num/den) < per*H.
ClaimLt(q, H) == (~q.inf) /\ ((q.num \div q.den) < q.per * H)

\* C1: the decision table lookup is total: for every lead time (infinite
\* included) and every propellant level the returned decision carries one
\* command, one network priority and one bandwidth fraction, together a row of
\* the decision table; the command is never left undefined.
C1_DecisionTotal ==
    DecisionDone =>
        /\ {"command", "network_priority", "bandwidth_allocation"} \subseteq DOMAIN decision.result
        /\ decision.result.command # Unbound
        /\ RowOf(decision.result) \in TableRows

\* C1 witness: _make_isl_decision has returned for an infinite lead time.
C1_Witness ==
    /\ DecisionDone
    /\ decision.op = "_make_isl_decision"
    /\ decision.time_hours = Infinite
    /\ decision.propellant = 30
    /\ RowOf(decision.result) = RowNormal

\* C2 (as claimed): with urgency IMMEDIATE or SHORT_TERM the decision is
\* THRUST_IMMINENT/HIGH_REROUTE/0.20 for propellant > 0.15,
\* THRUST_CONDITIONAL/MEDIUM_REROUTE/0.10 for 0.05 <= propellant <= 0.15, and
\* THRUST_IMPOSSIBLE/EMERGENCY_REROUTE/0.05 exactly when propellant < 0.05.
C2_CriticalRowsAsClaimed ==
    (DecisionDone /\ StartsWithCritico(decision.result.urgency_level)) =>
        LET p == decision.result.propellant
            row == RowOf(decision.result)
        IN  /\ (p > 150) => (row = RowImminent)
            /\ (50 <= p /\ p <= 150) => (row = RowConditional)
            /\ (row = RowImpossible) <=> (p < 50)

\* C3: with urgency MODERATE the decision is THRUST_PLANNED/PLANNED_REROUTE/0.80
\* for propellant > 0.25 and THRUST_PRESERVE/FUEL_CONSERVATION/0.60 for
\* propellant <= 0.25; with urgency LOW it is ROUTE_NORMAL/NORMAL/1.00 for any
\* propellant level.
C3_ModerateAndLowRows ==
    DecisionDone =>
        LET p == decision.result.propellant
            row == RowOf(decision.result)
            u == decision.result.urgency_level
        IN  /\ (u = "MODERADO" /\ p > 250) => (row = RowPlanned)
            /\ (u = "MODERADO" /\ p <= 250) => (row = RowPreserve)
            /\ (u = "BAJO") => (row = RowNormal)

\* C3 witness: a MODERATE decision on the band boundary, propellant = 0.25.
C3_Witness ==
    /\ DecisionDone
    /\ decision.result.urgency_level = "MODERADO"
    /\ decision.result.propellant = 250
    /\ RowOf(decision.result) = RowPreserve

\* C4: the urgency class is a function of the lead time in hours alone:
\* < 1 IMMEDIATE, 1 <= t < 6 SHORT_TERM, 6 <= t < 24 MODERATE, anything else
\* (infinite included) LOW.
C4_UrgencyFromLeadTime ==
    DecisionDone =>
        LET t == decision.result.time_to_maneuver_hours
        IN  decision.result.urgency_level =
                IF ClaimLt(t, 1) THEN "CRITICO_INMEDIATO"
                ELSE IF ClaimLt(t, 6) THEN "CRITICO_CORTO_PLAZO"
                ELSE IF ClaimLt(t, 24) THEN "MODERADO"
                ELSE "BAJO"

\* C4 witness: a lead time of exactly 1 hour is classed SHORT_TERM.
C4_Witness ==
    /\ DecisionDone
    /\ decision.op = "_make_isl_decision"
    /\ decision.time_hours = Quantity(1, 1, 1)
    /\ decision.result.urgency_level = "CRITICO_CORTO_PLAZO"

\* C5: determine_thrust_aware_routing never propagates a failure of the
\* estimator: when calculate_maneuver_time returns an error result the lead
\* time stays infinite, urgency is LOW and a complete decision with command
\* ROUTE_NORMAL is returned.
C5_EstimatorFailureDegrades ==
    (/\ DecisionDone
     /\ decision.op = "determine_thrust_aware_routing"
     /\ IsError(decision.result.maneuver_data)) =>
        /\ decision.result.time_to_maneuver_hours = Infinite
        /\ decision.result.urgency_level = "BAJO"
        /\ RowOf(decision.result) = RowNormal
        /\ decision.result.isl_protocol.payload.requested_action = "MAINTAIN_NORMAL_OPS"

\* C5 witness: a routing call for HIGH risk with encounters whose estimator
\* call returned an error.
C5_Witness ==
    /\ DecisionDone
    /\ decision.op = "determine_thrust_aware_routing"
    /\ decision.data = [risk_level |-> "ALTO",
                        close_encounters |-> <<[distance_km |-> 49]>>]
    /\ IsError(decision.result.maneuver_data)
    /\ decision.result.command = "ROUTE_NORMAL"

\* The routing call has returned.
RoutingDone == DecisionDone /\ decision.op = "determine_thrust_aware_routing"

\* The least distance_km of a non-empty encounter list.
LeastDistance(close_encounters) ==
    CHOOSE d \in {close_encounters[i].distance_km : i \in 1..Len(close_encounters)} :
        \A i \in 1..Len(close_encounters) : d <= close_encounters[i].distance_km

\* The claimed velocity in mm/s for a distance in tenths of a km.
ClaimedVelocity(d) == IF d < 50 THEN 12000000 ELSE IF d < 200 THEN 8000000 ELSE 3000000

\* The decision's maneuver_data is an estimate made for the claimed velocity of
\* the least distance, with R_req = 500 m, sigma_0 = 100 m, k = 0.001 m/s and
\* n = 3, and the decision's lead time is that estimate's time in hours:
\* (500 + 3*100) m / (v - 3*0.001) m/s / 3600.
EstimateFedFromNearest ==
    LET r == decision.result
        v == ClaimedVelocity(LeastDistance(decision.data.close_encounters))
    IN  /\ "parametros" \in DOMAIN r.maneuver_data
        /\ r.maneuver_data.parametros =
               [v_rel_ms |-> v, R_req_m |-> 500000, sigma_0_m |-> 100000, k_ms |-> 1,
                factor_confianza |-> 3]
        /\ r.time_to_maneuver_hours = r.maneuver_data.tiempo_maniobra.horas
        /\ r.time_to_maneuver_hours = Quantity(800000, v - 3, 3600)

\* The risk data handed to the routing call contains encounters.
ContainsEncounters ==
    /\ "close_encounters" \in DOMAIN decision.data
    /\ decision.data.close_encounters # << >>

\* C21 (as claimed): every decision of determine_thrust_aware_routing for risk
\* data that contains encounters selects the velocity estimate from the nearest
\* encounter's distance (< 5 km 12000 m/s, < 20 km 8000 m/s, otherwise 3000 m/s)
\* and feeds it to calculate_maneuver_time to obtain time_to_maneuver.
C21_EstimateForAnyEncounters ==
    (RoutingDone /\ ContainsEncounters) => EstimateFedFromNearest

\* C21 (amended): the estimate is made when, besides the encounters, the risk
\* level is HIGH or CRITICAL; then the velocity comes from the nearest
\* encounter's distance alone and, unless the estimator's catch-all handler
\* returned an error, the decision's lead time is the estimator's time in hours.
\* For any other risk level (absent, LOW, MEDIUM) no estimate is made: the lead
\* time stays infinite and maneuver_data is None.
C21_EstimateForHighRiskEncounters ==
    (RoutingDone /\ ContainsEncounters) =>
        IF Get(decision.data, "risk_level", "BAJO") \in {"ALTO", "CRITICO"} THEN
            IF decision.raised THEN
                /\ IsError(decision.result.maneuver_data)
                /\ decision.result.time_to_maneuver_hours = Infinite
            ELSE EstimateFedFromNearest
        ELSE
            /\ decision.result.maneuver_data = NoData
            /\ decision.result.time_to_maneuver_hours = Infinite

\* C21 witness: a CRITICAL risk whose nearest encounter (0.5 km) is the second
\* of the list, behind one at 20 km: the estimate is made for 12000 m/s.
C21_Witness ==
    /\ RoutingDone
    /\ decision.data = [risk_level |-> "CRITICO",
                        close_encounters |-> <<[distance_km |-> 200], [distance_km |-> 5]>>]
    /\ ~decision.raised
    /\ decision.result.maneuver_data.parametros.v_rel_ms = 12000000
    /\ decision.result.time_to_maneuver_hours = Quantity(800000, 11999997, 3600)

\* C22: every decision carries a protocol message whose payload is fixed by the
\* command: THRUST_IMMINENT requests TAKE_TRAFFIC_LOAD with backup required,
\* THRUST_IMPOSSIBLE requests EMERGENCY_BACKUP with ground notification,
\* ROUTE_NORMAL signals a health check, every other command requests
\* STANDBY_SUPPORT with a maneuver probability; the message priority is HIGH
\* exactly when urgency is IMMEDIATE or SHORT_TERM, otherwise MEDIUM.
C22_ProtocolFixedByCommand ==
    DecisionDone =>
        LET r == decision.result
            m == r.isl_protocol
            p == m.payload
        IN  /\ {"message_type", "source", "destination", "priority", "payload"}
                   \subseteq DOMAIN m
            /\ IF r.command = "THRUST_IMMINENT" THEN
                   /\ p.requested_action = "TAKE_TRAFFIC_LOAD"
                   /\ p.backup_required = TRUE
               ELSE IF r.command = "THRUST_IMPOSSIBLE" THEN
                   /\ p.requested_action = "EMERGENCY_BACKUP"
                   /\ p.ground_notification = TRUE
               ELSE IF r.command = "ROUTE_NORMAL" THEN
                   /\ p.health_check = TRUE
                   /\ "maneuver_probability" \notin DOMAIN p
               ELSE
                   /\ r.command \in {"THRUST_CONDITIONAL", "THRUST_PLANNED", "THRUST_PRESERVE"}
                   /\ p.requested_action = "STANDBY_SUPPORT"
                   /\ "maneuver_probability" \in DOMAIN p
            /\ m.priority \in {"HIGH", "MEDIUM"}
            /\ (m.priority = "HIGH") <=>
                   (r.urgency_level \in {"CRITICO_INMEDIATO", "CRITICO_CORTO_PLAZO"})

\* C22 witness: a SHORT_TERM decision with limited propellant: the command
\* THRUST_CONDITIONAL, a standby-support payload and priority HIGH.
C22_Witness ==
    /\ DecisionDone
    /\ decision.result.urgency_level = "CRITICO_CORTO_PLAZO"
    /\ decision.result.command = "THRUST_CONDITIONAL"
    /\ decision.result.isl_protocol.priority = "HIGH"
    /\ decision.result.isl_protocol.payload.requested_action = "STANDBY_SUPPORT"

\* The risk data handed to the routing call names a HIGH or CRITICAL risk and
\* has a non-empty encounter list.
HighRiskWithEncounters ==
    /\ "risk_level" \in DOMAIN decision.data
    /\ decision.data.risk_level \in {"ALTO", "CRITICO"}
    /\ ContainsEncounters

\* What holds of every routing decision with or without an estimator error:
\* the lead time is infinite or below 1 hour (num/(den*per) < 1, stated as
\* floor(num/per) < den), and the command is never THRUST_PLANNED or
\* THRUST_PRESERVE.
LeadTimeInfiniteOrImmediate ==
    LET r == decision.result
    IN  /\ \/ r.time_to_maneuver_hours = Infinite
           \/ /\ ~r.time_to_maneuver_hours.inf
              /\ (r.time_to_maneuver_hours.num \div r.time_to_maneuver_hours.per) <
                     r.time_to_maneuver_hours.den
        /\ r.command \notin {"THRUST_PLANNED", "THRUST_PRESERVE"}
        /\ r.command \in {"ROUTE_NORMAL", "THRUST_IMMINENT", "THRUST_CONDITIONAL",
                          "THRUST_IMPOSSIBLE"}

\* C26: for every risk data and propellant level passed to
\* determine_thrust_aware_routing the lead time fed to the decision table is
\* infinite or below 1 hour, so the command is never THRUST_PLANNED or
\* THRUST_PRESERVE; the command is ROUTE_NORMAL exactly when the risk level is
\* not HIGH/CRITICAL or the encounter list is empty (a MEDIUM risk with
\* encounters yields ROUTE_NORMAL with bandwidth 1.0), and otherwise it is
\* THRUST_IMMINENT, THRUST_CONDITIONAL or THRUST_IMPOSSIBLE.  The "exactly
\* when" is that of a call in which no exception is raised inside the
\* estimator: no risk data or propellant level raises one, and a call in which
\* the interpreter does fail there returns ROUTE_NORMAL whatever the risk.
C26_NormalIffNoHighRiskEncounters ==
    RoutingDone =>
        /\ LeadTimeInfiniteOrImmediate
        /\ (decision.result.command = "ROUTE_NORMAL") =>
               (decision.result.bandwidth_allocation = 100)
        /\ (decision.result.command = "ROUTE_NORMAL") <=>
               (decision.result.time_to_maneuver_hours = Infinite)
        /\ IF decision.raised THEN decision.result.command = "ROUTE_NORMAL"
           ELSE (decision.result.command = "ROUTE_NORMAL") <=> ~HighRiskWithEncounters

\* C26 witness: a MEDIUM risk with an encounter at 0.5 km and an empty tank
\* yields ROUTE_NORMAL with bandwidth 1.0 and an infinite lead time.
C26_Witness ==
    /\ RoutingDone
    /\ decision.data = [risk_level |-> "MEDIO",
                        close_encounters |-> <<[distance_km |-> 5]>>]
    /\ decision.propellant = 0
    /\ decision.result.time_to_maneuver_hours = Infinite
    /\ RowOf(decision.result) = RowNormal

\* The returned decision carries a standby-support payload.
StandbySupport ==
    /\ DecisionDone
    /\ decision.result.isl_protocol.payload.requested_action = "STANDBY_SUPPORT"

\* C27: for propellant in [0, 1] the maneuver probability
\* min(1, (1 - propellant) + 0.5) placed in a standby-support payload lies in
\* [0.5, 1]; it is 1.00 for every THRUST_CONDITIONAL and every THRUST_PRESERVE
\* decision, and below 1.00 only for THRUST_PLANNED decisions with
\* propellant > 0.5.
C27_ManeuverProbabilityRange ==
    (/\ StandbySupport
     /\ 0 <= decision.result.propellant
     /\ decision.result.propellant <= 1000) =>
        LET r == decision.result
            probability == r.isl_protocol.payload.maneuver_probability
        IN  /\ 50 <= probability /\ probability <= 100
            /\ (r.command \in {"THRUST_CONDITIONAL", "THRUST_PRESERVE"}) =>
                   (probability = 100)
            /\ (probability < 100) =>
                   (r.command = "THRUST_PLANNED" /\ r.propellant > 500)
            /\ (r.command = "THRUST_PLANNED" /\ r.propellant <= 500) =>
                   (probability = 100)

\* C27 witness: a THRUST_PLANNED decision with propellant 0.6 carries the
\* probability 0.90.
C27_Witness ==
    /\ StandbySupport
    /\ decision.result.command = "THRUST_PLANNED"
    /\ decision.result.propellant = 600
    /\ decision.result.isl_protocol.payload.maneuver_probability = 90

(***************************************************************************)
(* The estimator applied to its inputs                                     *)
(***************************************************************************)
\* Relative velocities in mm/s: non-positive, a few mm/s (on and around n*k),
\* and orbital speeds.
VRelValues == {-1000, 0, 1, 2, 3, 4, 1000, 3000000, 8200000, 12000000}

\* Safety distances in mm: non-positive, one millimetre, the lengths covered in
\* 1 h, 6 h, 24 h and 7 days at 1 mm/s, and operational distances.
RReqValues == {-1000, 0, 1, 3600, 21600, 86400, 604800, 500000, 1000000}

\* Positional uncertainties in mm.
Sigma0Values == {-1, 0, 100000, 120000}

\* Uncertainty growth rates in mm/s.
KValues == {0, 1, 2, 1000}

\* Confidence factors; the code accepts a negative one.
NValues == {-3, 0, 1, 2, 3}

DecisionIdle ==
    [op |-> "none", pc |-> "idle", time_hours |-> Infinite, propellant |-> 0,
     data |-> NoData, raised |-> FALSE, result |-> NoData]

\* The calls of calculate_maneuver_time about to be made; raised tells whether
\* an exception will be raised inside the try block.
ManeuverCalls ==
    {[op |-> "calculate_maneuver_time", pc |-> "call", v_rel |-> v, R_req |-> r,
      sigma_0 |-> s, k |-> k, n |-> n, raised |-> x, result |-> NoData,
      halved |-> NoData] :
        v \in VRelValues, r \in RReqValues, s \in Sigma0Values, k \in KValues,
        n \in NValues, x \in BOOLEAN}

InitManeuver ==
    /\ maneuver \in ManeuverCalls
    /\ decision = DecisionIdle
    /\ ScreeningIdle

\* The call of calculate_maneuver_time is made and returns.
CalculateManeuverTimeCall ==
    /\ maneuver.op = "calculate_maneuver_time" /\ maneuver.pc = "call"
    /\ maneuver' = [maneuver EXCEPT
           !.pc = "done",
           !.result = CalculateManeuverTime(maneuver.v_rel, maneuver.R_req, maneuver.sigma_0,
                                            maneuver.k, maneuver.n, maneuver.raised)]
    /\ UNCHANGED <<decision, satellites, clock, screen, find, network_nodes, current_routes,
                 constellation, analyzer, response>>

\* x / 2 for a float x whose half is a whole number of the model's unit.
Half(x) == x \div 2

\* calculate_maneuver_time is called again with R_req and sigma_0 halved and
\* v_rel, k and n as before, and returns.
CalculateManeuverTimeHalvedCall ==
    /\ maneuver.op = "calculate_maneuver_time" /\ maneuver.pc = "done"
    /\ maneuver.R_req % 2 = 0 /\ maneuver.sigma_0 % 2 = 0
    /\ maneuver' = [maneuver EXCEPT
           !.pc = "halved",
           !.halved = CalculateManeuverTime(maneuver.v_rel, Half(maneuver.R_req),
                                            Half(maneuver.sigma_0), maneuver.k, maneuver.n,
                                            maneuver.raised)]
    /\ UNCHANGED <<decision, satellites, clock, screen, find, network_nodes, current_routes,
                 constellation, analyzer, response>>

NextManeuver == CalculateManeuverTimeCall \/ CalculateManeuverTimeHalvedCall

SpecManeuver == InitManeuver /\ [][NextManeuver]_vars

(***************************************************************************)
(* Properties of the estimator (checked under SpecManeuver)                *)
(***************************************************************************)
\* The call returned from the try body: no exception reached the catch-all.
ManeuverReturned == maneuver.pc \in {"done", "halved"} /\ ~maneuver.raised

ErrorOf(result) == IF IsError(result) THEN result.error ELSE "none"

\* C9: calculate_maneuver_time validates in a fixed order and reports the first
\* failing check: v_rel > 0 else the velocity error; then R_req > 0 else the
\* safety-distance error; then sigma_0 >= 0 else the uncertainty error; then
\* v_rel - n*k > 0 else the infeasible-configuration error, which carries the
\* deficit |v_rel - n*k| and a remediation hint; with no failing check it
\* succeeds.
C9_FirstFailingCheck ==
    ManeuverReturned =>
        LET m == maneuver
            r == maneuver.result
        IN  IF ~(m.v_rel > 0) THEN ErrorOf(r) = ErrVelocity
            ELSE IF ~(m.R_req > 0) THEN ErrorOf(r) = ErrSafetyDistance
            ELSE IF ~(m.sigma_0 >= 0) THEN ErrorOf(r) = ErrUncertainty
            ELSE IF ~(m.v_rel - m.n * m.k > 0) THEN
                /\ ErrorOf(r) = ErrInfeasible
                /\ r.deficit = Abs(m.v_rel - m.n * m.k)
                /\ "recommendation" \in DOMAIN r
            ELSE ~IsError(r)

\* C9 witness: a call with both a non-positive velocity and a non-positive
\* safety distance has reported the velocity error.
C9_Witness ==
    /\ ManeuverReturned
    /\ maneuver.v_rel <= 0
    /\ maneuver.R_req <= 0
    /\ maneuver.sigma_0 < 0
    /\ ErrorOf(maneuver.result) = ErrVelocity

\* C10 (as claimed): for all inputs calculate_maneuver_time fails with the
\* infeasible-configuration error if and only if v_rel <= n*k.
C10_InfeasibleIffAsClaimed ==
    ManeuverReturned =>
        ((ErrorOf(maneuver.result) = ErrInfeasible)
            <=> (maneuver.v_rel <= maneuver.n * maneuver.k))

\* C10 (amended): calculate_maneuver_time fails with the infeasible-
\* configuration error if and only if the three earlier checks pass
\* (v_rel > 0, R_req > 0, sigma_0 >= 0) and v_rel <= n*k.
C10_InfeasibleIffValidated ==
    ManeuverReturned =>
        ((ErrorOf(maneuver.result) = ErrInfeasible)
            <=> (/\ maneuver.v_rel > 0
                 /\ maneuver.R_req > 0
                 /\ maneuver.sigma_0 >= 0
                 /\ maneuver.v_rel <= maneuver.n * maneuver.k))

\* C10 witness: a validated call with v_rel = n*k has failed as infeasible.
C10_Witness ==
    /\ ManeuverReturned
    /\ maneuver.v_rel > 0
    /\ maneuver.v_rel = maneuver.n * maneuver.k
    /\ ErrorOf(maneuver.result) = ErrInfeasible
    /\ maneuver.result.deficit = 0

\* a/b < c/d for whole numbers a, c and b, d >= 1, by comparing the whole
\* parts and then the reciprocals of the fractional parts.
RECURSIVE FracLt(_, _, _, _)
FracLt(a, b, c, d) ==
    IF (a \div b) # (c \div d) THEN (a \div b) < (c \div d)
    ELSE IF (c % d) = 0 THEN FALSE
    ELSE IF (a % b) = 0 THEN TRUE
    ELSE FracLt(d, c % d, b, a % b)

\* The call succeeded: it returned the estimate, not an error.
ManeuverSucceeded == ManeuverReturned /\ ~IsError(maneuver.result)

\* q is r divided by c.
IsQuotient(q, r, c) ==
    (~q.inf) /\ (~r.inf) /\ q.num = r.num /\ q.den = r.den /\ q.per = r.per * c

\* The call of the concrete scenario: v_rel = 8200 m/s, R_req = 1000 m,
\* sigma_0 = 120 m, k = 0.001 m/s, n = 3.
ConcreteScenario ==
    /\ maneuver.v_rel = 8200000
    /\ maneuver.R_req = 1000000
    /\ maneuver.sigma_0 = 120000
    /\ maneuver.k = 1
    /\ maneuver.n = 3

\* C11: on success the lead time in seconds is
\* (R_req + n*sigma_0) / (v_rel - n*k), minutes = seconds/60, hours = minutes/60
\* and days = hours/24; for v_rel = 8200, R_req = 1000, sigma_0 = 120,
\* k = 0.001, n = 3 the numerator is 1360 (m), the denominator 8199.997 (m/s)
\* and the lead time is about 0.16586 s (within 0.00001 s of it).
C11_LeadTimeFormula ==
    ManeuverSucceeded =>
        LET m == maneuver
            t == maneuver.result.tiempo_maniobra
            c == maneuver.result.componentes_calculo
        IN  /\ c.numerador = m.R_req + m.n * m.sigma_0
            /\ c.denominador = m.v_rel - m.n * m.k
            /\ t.segundos = [inf |-> FALSE, num |-> m.R_req + m.n * m.sigma_0,
                             den |-> m.v_rel - m.n * m.k, per |-> 1]
            /\ IsQuotient(t.minutos, t.segundos, 60)
            /\ IsQuotient(t.horas, t.minutos, 60)
            /\ IsQuotient(t.dias, t.horas, 24)
            /\ ConcreteScenario =>
                   /\ c.numerador = 1360000
                   /\ c.denominador = 8199997
                   /\ FracLt(16585, 100000, t.segundos.num, t.segundos.den)
                   /\ FracLt(t.segundos.num, t.segundos.den, 16587, 100000)

\* C11 witness: the call of the concrete scenario has succeeded with a lead
\* time between 0.1658 s and 0.1659 s, reported in days with the divisor 86400.
C11_Witness ==
    /\ ManeuverSucceeded
    /\ ConcreteScenario
    /\ FracLt(1658, 10000, maneuver.result.tiempo_maniobra.segundos.num,
              maneuver.result.tiempo_maniobra.segundos.den)
    /\ FracLt(maneuver.result.tiempo_maniobra.segundos.num,
              maneuver.result.tiempo_maniobra.segundos.den, 1659, 10000)
    /\ maneuver.result.tiempo_maniobra.dias.per = 86400

\* The whole seconds of the lead time of a successful call.
WholeSeconds ==
    maneuver.result.tiempo_maniobra.segundos.num
        \div maneuver.result.tiempo_maniobra.segundos.den

\* C12: on success the criticality is a function of the lead time alone:
\* below 1 h CRITICAL, below 6 h HIGH, below 24 h MEDIUM, below 7 days LOW,
\* otherwise MINIMAL; and each bucket carries its one fixed recommendation.
C12_CriticalityBuckets ==
    ManeuverSucceeded =>
        maneuver.result.evaluacion =
            IF WholeSeconds < 3600 THEN
                [criticidad |-> "CRITICO", recomendacion |-> "Maniobra inmediata requerida"]
            ELSE IF WholeSeconds < 6 * 3600 THEN
                [criticidad |-> "ALTO",
                 recomendacion |-> "Preparar maniobra en las proximas horas"]
            ELSE IF WholeSeconds < 24 * 3600 THEN
                [criticidad |-> "MEDIO", recomendacion |-> "Planificar maniobra para hoy"]
            ELSE IF WholeSeconds < 7 * 86400 THEN
                [criticidad |-> "BAJO",
                 recomendacion |-> "Maniobra puede planificarse con anticipacion"]
            ELSE
                [criticidad |-> "MINIMO",
                 recomendacion |-> "Tiempo suficiente para analisis detallado"]

\* C12 witness: a lead time of exactly 24 hours has been classified LOW.
C12_Witness ==
    /\ ManeuverSucceeded
    /\ maneuver.result.tiempo_maniobra.segundos.num
           = 86400 * maneuver.result.tiempo_maniobra.segundos.den
    /\ maneuver.result.evaluacion.criticidad = "BAJO"
    /\ maneuver.result.evaluacion.recomendacion
           = "Maniobra puede planificarse con anticipacion"

\* C13 (as claimed): for every input on which calculate_maneuver_time succeeds,
\* the call with R_req and sigma_0 halved and v_rel, k, n unchanged succeeds
\* too, with a lead time not greater than the original one.
C13_HalvingAsClaimed ==
    (maneuver.pc = "halved" /\ ManeuverSucceeded) =>
        /\ ~IsError(maneuver.halved)
        /\ ~FracLt(maneuver.result.tiempo_maniobra.segundos.num,
                   maneuver.result.tiempo_maniobra.segundos.den,
                   maneuver.halved.tiempo_maniobra.segundos.num,
                   maneuver.halved.tiempo_maniobra.segundos.den)

\* C13 (amended): for every input with n >= 0 on which calculate_maneuver_time
\* succeeds, the call with R_req and sigma_0 halved and v_rel, k, n unchanged
\* succeeds too, with a lead time not greater than the original one.
C13_HalvingDoesNotIncrease ==
    (maneuver.pc = "halved" /\ ManeuverSucceeded /\ maneuver.n >= 0) =>
        /\ ~IsError(maneuver.halved)
        /\ ~FracLt(maneuver.result.tiempo_maniobra.segundos.num,
                   maneuver.result.tiempo_maniobra.segundos.den,
                   maneuver.halved.tiempo_maniobra.segundos.num,
                   maneuver.halved.tiempo_maniobra.segundos.den)

\* C13 witness: a successful call with a positive uncertainty has been repeated
\* with both lengths halved, and the lead time has become strictly smaller.
C13_Witness ==
    /\ maneuver.pc = "halved"
    /\ ManeuverSucceeded
    /\ maneuver.n > 0
    /\ maneuver.sigma_0 > 0
    /\ maneuver.halved.parametros.R_req_m = Half(maneuver.R_req)
    /\ maneuver.halved.parametros.sigma_0_m = Half(maneuver.sigma_0)
    /\ FracLt(maneuver.halved.tiempo_maniobra.segundos.num,
              maneuver.halved.tiempo_maniobra.segundos.den,
              maneuver.result.tiempo_maniobra.segundos.num,
              maneuver.result.tiempo_maniobra.segundos.den)

\* The scenarios of the returned list that carry the given name.
ScenariosNamed(nombre) ==
    {i \in 1..Len(maneuver.result.escenarios_alternativos) :
        maneuver.result.escenarios_alternativos[i].nombre = nombre}

\* The list reports the scenario of confidence factor m under the given name
\* exactly when the caller's n is not m and v_rel - m*k > 0, once, with the
\* time (R_req + m*sigma_0)/(v_rel - m*k) in seconds and, over 3600, in hours.
ScenarioReportedExactlyWhen(nombre, m) ==
    LET e == maneuver.result.escenarios_alternativos
        due == maneuver.n # m /\ maneuver.v_rel - m * maneuver.k > 0
    IN  /\ Cardinality(ScenariosNamed(nombre)) = IF due THEN 1 ELSE 0
        /\ \A i \in ScenariosNamed(nombre) :
               /\ e[i].tiempo_segundos =
                      Quantity(maneuver.R_req + m * maneuver.sigma_0,
                               maneuver.v_rel - m * maneuver.k, 1)
               /\ e[i].tiempo_horas =
                      Quantity(maneuver.R_req + m * maneuver.sigma_0,
                               maneuver.v_rel - m * maneuver.k, 3600)

\* C24: on success calculate_maneuver_time reports the alternative scenario
\* n=2 (conservative) exactly when the caller's n is not 2 and v_rel - 2k > 0,
\* and the alternative scenario n=1 (aggressive) exactly when the caller's n is
\* not 1 and v_rel - k > 0, each computed with the formula of the base case.
C24_AlternativeScenarios ==
    ManeuverSucceeded =>
        /\ ScenarioReportedExactlyWhen("Conservador (2s)", 2)
        /\ ScenarioReportedExactlyWhen("Agresivo (1s)", 1)
        /\ \A i \in 1..Len(maneuver.result.escenarios_alternativos) :
               maneuver.result.escenarios_alternativos[i].nombre
                   \in {"Conservador (2s)", "Agresivo (1s)"}

\* C24 witness: v_rel = 2 mm/s, k = 1 mm/s, n = 0 succeeds; v_rel - 2k = 0, so
\* the conservative scenario is skipped, and the aggressive one is reported as
\* (500 + 100) m / 1 mm/s.
C24_Witness ==
    /\ ManeuverSucceeded
    /\ maneuver.v_rel = 2 /\ maneuver.k = 1 /\ maneuver.n = 0
    /\ maneuver.R_req = 500000 /\ maneuver.sigma_0 = 100000
    /\ maneuver.result.escenarios_alternativos =
           << [nombre |-> "Agresivo (1s)",
               tiempo_segundos |-> Quantity(600000, 1, 1),
               tiempo_horas |-> Quantity(600000, 1, 3600)] >>

(***************************************************************************)
(* SatelliteAnalyzer.analyze_collision_risk                                *)
(*   distances and threshold_km in tenths of a km, times in seconds.       *)
(***************************************************************************)
\* list(self.satellites.keys())[:100]
SampleLimit == 100

\* Longest horizon screened, in days.
MaxDays == 1

\* Most samples of one run at which the propagator puts another object below
\* the threshold.
MaxClose == 2

\* Longest time a run takes, in seconds: the clock is read again at each sample.
MaxDrift == 1

\* Distances the propagator's positions give, in tenths of a km: on and around
\* the risk boundaries 1.0 km and 5.0 km and the thresholds.
Distances == {5, 10, 50, 100, 200}

\* threshold_km > 0, in tenths of a km.
Thresholds == {8, 100}

\* An identifier that is not in the catalog.
Unknown == "SAT_X"

Range(seq) == {seq[i] : i \in 1..Len(seq)}

Min(a, b) == IF a < b THEN a ELSE b

\* seq without the elements equal to drop, in order.
RECURSIVE SelectNames(_, _)
SelectNames(seq, drop) ==
    IF seq = << >> THEN << >>
    ELSE IF Head(seq) = drop THEN SelectNames(Tail(seq), drop)
    ELSE <<Head(seq)>> \o SelectNames(Tail(seq), drop)

\* satellites_to_check, as the sequence of its keys in insertion order.
SatellitesToCheck(names, satellite1_name, satellite2_name) ==
    IF satellite2_name # None THEN
        IF satellite2_name \in Range(names) THEN <<satellite2_name>> ELSE << >>
    ELSE
        SelectNames(SubSeq(names, 1, Min(SampleLimit, Len(names))), satellite1_name)

\* The test with the threshold itself counted as close.
IsCloseInclusive(distance_km, threshold_km) == distance_km <= threshold_km

\* The test that records a close encounter.
IsClose(distance_km, threshold_km) == distance_km < threshold_km

\* min(enc['distance_km'] for enc in close_encounters), of a non-empty list.
MinDistance(close_encounters) ==
    CHOOSE d \in {close_encounters[i].distance_km : i \in 1..Len(close_encounters)} :
        \A j \in 1..Len(close_encounters) : d <= close_encounters[j].distance_km

\* The risk level taken from the first encounter instead of the nearest.
RiskLevelOfFirst(close_encounters) ==
    IF close_encounters = << >> THEN "BAJO"
    ELSE IF close_encounters[1].distance_km < 10 THEN "CRITICO"
    ELSE IF close_encounters[1].distance_km < 50 THEN "ALTO"
    ELSE "MEDIO"

\* The risk level with a LOW bucket for encounters of 5 km and more.
RiskLevelLowBucket(close_encounters) ==
    IF close_encounters = << >> THEN "BAJO"
    ELSE IF MinDistance(close_encounters) < 10 THEN "CRITICO"
    ELSE IF MinDistance(close_encounters) < 50 THEN "ALTO"
    ELSE "BAJO"

\* The risk level taken from the last encounter instead of the nearest.
RiskLevelOfLast(close_encounters) ==
    IF close_encounters = << >> THEN "BAJO"
    ELSE IF close_encounters[Len(close_encounters)].distance_km < 10 THEN "CRITICO"
    ELSE IF close_encounters[Len(close_encounters)].distance_km < 50 THEN "ALTO"
    ELSE "MEDIO"

\* The risk level computed from the collected encounters.
RiskLevel(close_encounters) ==
    IF close_encounters = << >> THEN "BAJO"
    ELSE IF MinDistance(close_encounters) < 10 THEN "CRITICO"
    ELSE IF MinDistance(close_encounters) < 50 THEN "ALTO"
    ELSE "MEDIO"

\* The timestamp of the sample `hours` after the clock reading `now`.
SampleTime(now, hours) == now + hours * 3600

\* The hours values left in range(0, days_ahead * 24, 6) from `hours` on.
InRange(hours, days_ahead) == hours < days_ahead * 24

\* The encounters one time sample appends: the candidates in dict order, each
\* with the distance dist[i] its propagated position gives.
RECURSIVE SampleEncounters(_, _, _, _, _)
SampleEncounters(t, names, dist, i, threshold_km) ==
    IF i > Len(names) THEN << >>
    ELSE (IF IsClose(dist[i], threshold_km)
          THEN << [datetime |-> t, satellite2 |-> names[i], distance_km |-> dist[i]] >>
          ELSE << >>)
         \o SampleEncounters(t, names, dist, i + 1, threshold_km)

\* The distances the propagator can give for the candidates at one sample: an
\* object is at distance 0 from itself, any other object at any distance.
SampleDistances(names, satellite1_name) ==
    {dist \in [1..Len(names) -> Distances \cup {0}] :
        \A i \in 1..Len(names) : (dist[i] = 0) <=> (names[i] = satellite1_name)}

\* The encounters with another object among the collected ones.
OtherEncounters(close_encounters, satellite1_name) ==
    {i \in 1..Len(close_encounters) : close_encounters[i].satellite2 # satellite1_name}

\* History kept for the properties: how many of the sampled pairs were at a
\* distance below the threshold.
PairsWithin(dist, threshold_km) ==
    Cardinality({i \in DOMAIN dist : dist[i] < threshold_km})

\* The calls of analyze_collision_risk about to be made.
AnalyzeCalls ==
    {[op |-> "analyze_collision_risk", pc |-> "call", satellite1_name |-> s1,
      satellite2_name |-> s2, threshold_km |-> th, days_ahead |-> d,
      start |-> 0, satellites_to_check |-> << >>, hours |-> 0,
      close_encounters |-> << >>, pairs_within |-> 0, sampled |-> << >>,
      discarded |-> 0, earlier |-> << >>, result |-> NoData] :
        s1 \in {Catalog[1], Unknown},
        s2 \in {None, Catalog[1], Catalog[2], Unknown},
        th \in Thresholds, d \in 0..MaxDays}

InitScreen ==
    /\ satellites = Catalog
    /\ clock = 0
    /\ screen \in AnalyzeCalls
    /\ decision = DecisionIdle
    /\ maneuver = ManeuverIdle
    /\ find = FindIdle
    /\ network_nodes = << >>
    /\ current_routes = << >>
    /\ constellation = ConstellationIdle
    /\ analyzer = NoAnalyzer
    /\ response = NoResponse

\* The entry that goes on with the list an earlier run returned instead of a
\* new empty list.
AnalyzeStartOnEarlierEvents ==
    /\ screen.op = "analyze_collision_risk" /\ screen.pc = "call"
    /\ IF screen.satellite1_name \notin Range(satellites) THEN
           screen' = [screen EXCEPT !.pc = "done",
                                    !.result = [error |-> "no encontrado",
                                                satellite |-> screen.satellite1_name]]
       ELSE
           screen' = [screen EXCEPT
               !.pc = "loop",
               !.start = clock,
               !.hours = 0,
               !.close_encounters = screen.earlier,
               !.sampled = << >>,
               !.satellites_to_check =
                   SatellitesToCheck(satellites, screen.satellite1_name, screen.satellite2_name)]
    /\ UNCHANGED <<decision, maneuver, satellites, clock, find, network_nodes, current_routes,
                 constellation, analyzer, response>>

\* analyze_collision_risk is entered: the target is looked up and the
\* candidates are chosen.
AnalyzeStart ==
    /\ screen.op = "analyze_collision_risk" /\ screen.pc = "call"
    /\ IF screen.satellite1_name \notin Range(satellites) THEN
           screen' = [screen EXCEPT !.pc = "done",
                                    !.result = [error |-> "no encontrado",
                                                satellite |-> screen.satellite1_name]]
       ELSE
           screen' = [screen EXCEPT
               !.pc = "loop",
               !.start = clock,
               !.hours = 0,
               !.close_encounters = << >>,
               !.sampled = << >>,
               !.satellites_to_check =
                   SatellitesToCheck(satellites, screen.satellite1_name, screen.satellite2_name)]
    /\ UNCHANGED <<decision, maneuver, satellites, clock, find, network_nodes, current_routes,
                 constellation, analyzer, response>>

\* One iteration of the loop over hours: the clock is read, the target and
\* every candidate are propagated to the sample time, and the encounters below
\* the threshold are appended.
AnalyzeSample ==
    /\ screen.op = "analyze_collision_risk" /\ screen.pc = "loop"
    /\ InRange(screen.hours, screen.days_ahead)
    /\ \E now \in clock..(screen.start + MaxDrift) :
       \E dist \in SampleDistances(screen.satellites_to_check, screen.satellite1_name) :
          LET found == SampleEncounters(SampleTime(now, screen.hours),
                                        screen.satellites_to_check, dist, 1,
                                        screen.threshold_km)
              all == screen.close_encounters \o found
          IN  /\ Cardinality(OtherEncounters(all, screen.satellite1_name)) <= MaxClose
              /\ clock' = now
              /\ screen' = [screen EXCEPT
                     !.close_encounters = all,
                     !.pairs_within = screen.pairs_within + PairsWithin(dist, screen.threshold_km),
                     !.sampled = Append(screen.sampled, screen.hours),
                     !.hours = screen.hours + 6]
    /\ UNCHANGED <<decision, maneuver, satellites, find, network_nodes, current_routes,
                 constellation, analyzer, response>>

\* One iteration of the loop over hours in which the propagator raises (sat.at
\* is called outside any try block): the exception leaves
\* analyze_collision_risk, nothing is returned and the call's locals are
\* discarded; discarded keeps the number of events collected until then.
AnalyzeSampleRaises ==
    /\ screen.op = "analyze_collision_risk" /\ screen.pc = "loop"
    /\ InRange(screen.hours, screen.days_ahead)
    /\ screen' = [screen EXCEPT
           !.pc = "raised",
           !.discarded = Len(screen.close_encounters),
           !.close_encounters = << >>,
           !.satellites_to_check = << >>,
           !.pairs_within = 0,
           !.sampled = << >>,
           !.hours = 0]
    /\ UNCHANGED <<decision, maneuver, satellites, clock, find, network_nodes, current_routes,
                 constellation, analyzer, response>>

\* The loop is over: the risk level is computed and the assessment returned.
AnalyzeFinish ==
    /\ screen.op = "analyze_collision_risk" /\ screen.pc = "loop"
    /\ ~InRange(screen.hours, screen.days_ahead)
    /\ screen' = [screen EXCEPT
           !.pc = "done",
           !.result = [satellite |-> screen.satellite1_name,
                       analysis_period_days |-> screen.days_ahead,
                       threshold_km |-> screen.threshold_km,
                       close_encounters |-> screen.close_encounters,
                       risk_level |-> RiskLevel(screen.close_encounters),
                       total_encounters |-> Len(screen.close_encounters),
                       satellites_analyzed |-> Len(screen.satellites_to_check)]]
    /\ UNCHANGED <<decision, maneuver, satellites, clock, find, network_nodes, current_routes,
                 constellation, analyzer, response>>

NextScreen == AnalyzeStart \/ AnalyzeSample \/ AnalyzeSampleRaises \/ AnalyzeFinish

SpecScreen == InitScreen /\ [][NextScreen]_vars

(***************************************************************************)
(* Properties of the screening (checked under SpecScreen)                  *)
(***************************************************************************)
\* analyze_collision_risk has returned an assessment (not the not-found error).
Assessed == screen.pc = "done" /\ ~IsError(screen.result)

\* C6: every event emitted by analyze_collision_risk has distance_km strictly
\* below the threshold and a timestamp within [now, now + horizon days], now
\* being the time of the call; for every threshold > 0 and horizon >= 0.
C6_EventsWithinThresholdAndHorizon ==
    (screen.op = "analyze_collision_risk") =>
        \A i \in 1..Len(screen.close_encounters) :
            LET e == screen.close_encounters[i]
            IN  /\ e.distance_km < screen.threshold_km
                /\ screen.start <= e.datetime
                /\ e.datetime <= screen.start + screen.days_ahead * 86400

\* C6 witness: an assessment holding an event of the last sample of the horizon,
\* taken after the clock has advanced.
C6_Witness ==
    /\ Assessed
    /\ screen.days_ahead = 1
    /\ \E i \in 1..Len(screen.result.close_encounters) :
           /\ screen.result.close_encounters[i].datetime > screen.start + 18 * 3600
           /\ screen.result.close_encounters[i].distance_km = 50

\* C7: the risk level returned is LOW when there are no events; otherwise,
\* with d_min the least event distance, CRITICAL if d_min < 1.0 km, HIGH if
\* 1.0 <= d_min < 5.0, MEDIUM if d_min >= 5.0.
C7_RiskLevelRule ==
    Assessed =>
        LET events == screen.result.close_encounters
            ds == {events[i].distance_km : i \in 1..Len(events)}
        IN  screen.result.risk_level =
                IF ds = {} THEN "BAJO"
                ELSE IF \E d \in ds : d < 10 THEN "CRITICO"
                ELSE IF \E d \in ds : d < 50 THEN "ALTO"
                ELSE "MEDIO"

\* C7 witness: an assessment whose first event is at 5.0 km and whose nearest
\* event is at exactly 1.0 km, rated HIGH.
C7_Witness ==
    /\ Assessed
    /\ Len(screen.result.close_encounters) = 2
    /\ screen.result.close_encounters[1].distance_km = 50
    /\ screen.result.close_encounters[2].distance_km = 10
    /\ screen.result.risk_level = "ALTO"

\* C8: in every successful result the risk level is LOW if and only if
\* close_encounters is empty (total_encounters = 0); when no sampled pair of
\* positions comes within the threshold the result is LOW with no encounters,
\* and any detected encounter gives at least MEDIUM.
C8_LowIffNoEncounters ==
    Assessed =>
        LET r == screen.result
        IN  /\ (r.risk_level = "BAJO") <=> (r.close_encounters = << >>)
            /\ (r.total_encounters = 0) <=> (r.close_encounters = << >>)
            /\ (screen.pairs_within = 0) => (r.risk_level = "BAJO" /\ r.total_encounters = 0)
            /\ (screen.pairs_within > 0) => (r.risk_level \in {"MEDIO", "ALTO", "CRITICO"})

\* C8 witness: two objects screened over a whole day whose sampled positions
\* never come within the threshold: LOW, no encounters.
C8_Witness ==
    /\ Assessed
    /\ screen.satellite2_name = Catalog[2]
    /\ screen.threshold_km = 100
    /\ screen.days_ahead = 1
    /\ screen.hours = 24
    /\ screen.result.satellites_analyzed = 1
    /\ screen.result.close_encounters = << >>
    /\ screen.result.risk_level = "BAJO"


\* The identifiers of the call that are not in the catalog.
UnknownIdentifier ==
    \/ screen.satellite1_name \notin Range(satellites)
    \/ (screen.satellite2_name # None /\ screen.satellite2_name \notin Range(satellites))

\* C14: analyze_collision_risk answers an unknown object identifier with a
\* not-found error instead of a risk assessment, when the target identifier is
\* unknown and when the optional second identifier is unknown.
C14_UnknownIdentifierIsError ==
    (screen.op = "analyze_collision_risk" /\ screen.pc = "done" /\ UnknownIdentifier) =>
        (IsError(screen.result) /\ screen.result.error = "no encontrado")

\* C15: when the propagator fails for one sample during screening, only that
\* sample is skipped: the run is not aborted and no event collected from the
\* other samples is lost.
C15_FailedSampleIsSkipped ==
    (screen.op = "analyze_collision_risk") =>
        (screen.pc # "raised" /\ screen.discarded = 0)

\* seq with the elements at positions i and j exchanged.
Swap(seq, i, j) == [seq EXCEPT ![i] = seq[j], ![j] = seq[i]]

\* seq from its last element to its first.
Reverse(seq) == [i \in 1..Len(seq) |-> seq[Len(seq) + 1 - i]]

\* The event lists of at most two events, at any of the distances, against which
\* the returned list is compared.
OtherEventLists ==
    UNION {[1..len -> [datetime : {0}, satellite2 : {Catalog[2]},
                       distance_km : Distances \cup {0}]] : len \in 1..2}

\* C17: the risk level is a deterministic, order-independent function of the
\* events: classifying the returned events again gives the returned level, so
\* does classifying them with any two events exchanged or in reverse order, and
\* every event list with the same minimum distance gets the same level.
C17_ClassificationOrderIndependent ==
    Assessed =>
        LET events == screen.result.close_encounters
            level == screen.result.risk_level
        IN  /\ RiskLevel(events) = level
            /\ RiskLevel(Reverse(events)) = level
            /\ \A j \in 2..Len(events) : \A i \in 1..(j - 1) :
                   RiskLevel(Swap(events, i, j)) = level
            /\ (events # << >>) =>
                   LET nearest == MinDistance(events)
                   IN  \A other \in OtherEventLists :
                           (MinDistance(other) = nearest) => RiskLevel(other) = level

\* C17 witness: an assessment whose nearest event comes first and whose last
\* event is in another distance band, rated by the nearest.
C17_Witness ==
    /\ Assessed
    /\ Len(screen.result.close_encounters) = 2
    /\ screen.result.close_encounters[1].distance_km = 5
    /\ screen.result.close_encounters[2].distance_km = 50
    /\ screen.result.risk_level = "CRITICO"
    /\ RiskLevel(Swap(screen.result.close_encounters, 1, 2)) = "CRITICO"

\* The hour offsets 0, step, 2*step, ... up to and including days_ahead * 24.
RECURSIVE OffsetsThrough(_, _, _)
OffsetsThrough(hours, step, days_ahead) ==
    IF hours > days_ahead * 24 THEN << >>
    ELSE <<hours>> \o OffsetsThrough(hours + step, step, days_ahead)

\* C19 (analyze_collision_risk): the instants sampled are now + i*step for every
\* i from 0 up to and including days_ahead*24/step, so the end of the horizon
\* is sampled and a horizon of 0 days samples exactly one instant.
C19_SamplesThroughEndOfHorizon ==
    Assessed => (screen.sampled = OffsetsThrough(0, 6, screen.days_ahead))


\* C29: the target object is never screened against itself: for every call of
\* analyze_collision_risk, with or without a second satellite name, no emitted
\* event names the target as the other object, and the candidate set counted
\* in satellites_analyzed excludes the target.
C29_TargetNotScreenedAgainstItself ==
    (screen.op = "analyze_collision_risk" /\ screen.pc \in {"loop", "done"}) =>
        /\ \A i \in 1..Len(screen.close_encounters) :
               screen.close_encounters[i].satellite2 # screen.satellite1_name
        /\ screen.satellite1_name \notin Range(screen.satellites_to_check)
        /\ Assessed =>
               /\ \A i \in 1..Len(screen.result.close_encounters) :
                      screen.result.close_encounters[i].satellite2 # screen.result.satellite
               /\ screen.result.satellites_analyzed =
                      Cardinality(Range(screen.satellites_to_check)
                                      \ {screen.satellite1_name})

(***************************************************************************)
(* SatelliteAnalyzer.find_collision_cases                                  *)
(*   distances and threshold_km in tenths of a km, times in seconds.       *)
(***************************************************************************)
\* if len(collision_cases) >= 5: return collision_cases
EnoughCases == 5

\* sample_satellites[i+1:i+51]: the 50 satellites after the i-th
PairWindow == 50

\* Most samples of one run at which the propagator raises.
MaxFailures == 1

\* orbital_speed, in m/s
OrbitalSpeed == 7800

\* _estimate_relative_velocity, in m/s, from the distance in tenths of a km.
EstimateRelativeVelocity(distance_km) ==
    IF distance_km < 50 THEN (OrbitalSpeed * 18) \div 10
    ELSE IF distance_km < 200 THEN (OrbitalSpeed * 12) \div 10
    ELSE (OrbitalSpeed * 5) \div 10

\* How the distance of a pair of objects develops over the horizon, as the
\* propagator computes it from their orbital elements.
Profiles == {"apart", "close", "closing"}

\* The distance of a pair with the given profile `hours` from now, in tenths of
\* a km: 100.0 km throughout, 15.0 km throughout, or 200.0 km that becomes
\* 4.0 km from the 20th hour on.
DistanceAt(profile, hours) ==
    IF profile = "apart" THEN 1000
    ELSE IF profile = "close" THEN 150
    ELSE IF hours < 20 THEN 2000 ELSE 40

\* tuple(sorted([sat1_name, sat2_name])), as the set of the two names
Pair(sat1_name, sat2_name) == {sat1_name, sat2_name}

\* The unordered pairs of catalog objects.
Pairs ==
    {Pair(Catalog[a], Catalog[b]) : a, b \in 1..Len(Catalog)}
        \ {{Catalog[c]} : c \in 1..Len(Catalog)}

\* The hours values left in range(0, days_ahead * 24, 2) from `hours` on.
InRange2(hours, days_ahead) == hours < days_ahead * 24

\* The position of the two nested loops over sample_satellites after the pair
\* (i, j), n being len(sample_satellites); <<0, 0>> when both are exhausted.
\* Positions count from 1.
NextPair(i, j, n) ==
    IF j < Min(i + PairWindow, n) THEN <<i, j + 1>>
    ELSE IF i + 2 <= n THEN <<i + 1, i + 2>>
    ELSE <<0, 0>>

\* The first pair of the nested loops.
FirstPair(n) == IF n >= 2 THEN <<1, 2>> ELSE <<0, 0>>

\* analyzed_pairs after the loops have moved to the pair at position pos.
Analyzed(analyzed_pairs, sample_satellites, pos) ==
    IF pos = <<0, 0>> THEN analyzed_pairs
    ELSE analyzed_pairs \cup {Pair(sample_satellites[pos[1]], sample_satellites[pos[2]])}

\* The next pair of the nested loops that passes `if pair in analyzed_pairs:
\* continue`: the pairs already in analyzed_pairs are stepped over.
RECURSIVE NextFreshPair(_, _, _, _)
NextFreshPair(i, j, sample_satellites, analyzed_pairs) ==
    LET pos == NextPair(i, j, Len(sample_satellites))
    IN  IF pos = <<0, 0>> THEN pos
        ELSE IF Pair(sample_satellites[pos[1]], sample_satellites[pos[2]]) \in analyzed_pairs
             THEN NextFreshPair(pos[1], pos[2], sample_satellites, analyzed_pairs)
             ELSE pos

\* The pairs whose loop over hours was entered, in order, after the loops have
\* moved to the pair at position pos.
Examined(examined, sample_satellites, pos) ==
    IF pos = <<0, 0>> THEN examined
    ELSE Append(examined, Pair(sample_satellites[pos[1]], sample_satellites[pos[2]]))

\* The calls of find_collision_cases about to be made, each with the distance
\* profile of every pair of catalog objects.
FindCalls ==
    {[op |-> "find_collision_cases", pc |-> "call", threshold_km |-> 1000,
      days_ahead |-> d, max_satellites |-> m, profile |-> pr, start |-> 0,
      sample_satellites |-> << >>, analyzed_pairs |-> {}, i |-> 0, j |-> 0, hours |-> 0,
      collision_cases |-> << >>, failures |-> 0, discarded |-> 0, earlier |-> << >>,
      examined |-> << >>, result |-> NoData] :
        d \in {0, 1}, m \in {1, 2, 200}, pr \in [Pairs -> Profiles]}

InitFind ==
    /\ satellites = Catalog
    /\ clock = 0
    /\ find \in FindCalls
    /\ screen = ScreenIdle
    /\ decision = DecisionIdle
    /\ maneuver = ManeuverIdle
    /\ network_nodes = << >>
    /\ current_routes = << >>
    /\ constellation = ConstellationIdle
    /\ analyzer = NoAnalyzer
    /\ response = NoResponse

\* find_collision_cases is entered: the sample of the catalog is taken and the
\* loops reach their first pair.
FindStart ==
    /\ find.op = "find_collision_cases" /\ find.pc = "call"
    /\ LET sample == SubSeq(satellites, 1, Min(find.max_satellites, Len(satellites)))
           pos == FirstPair(Len(sample))
       IN  find' = [find EXCEPT
               !.pc = "loop",
               !.start = clock,
               !.collision_cases = << >>,
               !.sample_satellites = sample,
               !.analyzed_pairs = Analyzed({}, sample, pos),
               !.examined = Examined(<< >>, sample, pos),
               !.i = pos[1],
               !.j = pos[2],
               !.hours = 0]
    /\ UNCHANGED <<decision, maneuver, satellites, clock, screen, network_nodes, current_routes,
                 constellation, analyzer, response>>

\* The iteration without the early return: a fifth case is appended like any
\* other and the loop over hours goes on.
FindSampleNoEarlyStop ==
    /\ find.op = "find_collision_cases" /\ find.pc = "loop"
    /\ find.i # 0
    /\ InRange2(find.hours, find.days_ahead)
    /\ \E now \in clock..(find.start + MaxDrift) :
          LET sat1_name == find.sample_satellites[find.i]
              sat2_name == find.sample_satellites[find.j]
              distance_km == DistanceAt(find.profile[Pair(sat1_name, sat2_name)], find.hours)
              cases == IF IsClose(distance_km, find.threshold_km)
                       THEN Append(find.collision_cases,
                                   [satellite1 |-> sat1_name,
                                    satellite2 |-> sat2_name,
                                    datetime |-> SampleTime(now, find.hours),
                                    distance_km |-> distance_km,
                                    hours_from_now |-> find.hours,
                                    relative_velocity_estimated |->
                                        EstimateRelativeVelocity(distance_km)])
                       ELSE find.collision_cases
          IN  /\ clock' = now
              /\ find' = [find EXCEPT !.collision_cases = cases,
                                      !.hours = find.hours + 2]
    /\ UNCHANGED <<decision, maneuver, satellites, screen, network_nodes, current_routes,
                 constellation, analyzer, response>>

\* One iteration of the loop over hours for the pair (i, j): the clock is read,
\* both objects are propagated, and a distance below the threshold appends a
\* case; with the fifth case the search returns.
FindSample ==
    /\ find.op = "find_collision_cases" /\ find.pc = "loop"
    /\ find.i # 0
    /\ InRange2(find.hours, find.days_ahead)
    /\ \E now \in clock..(find.start + MaxDrift) :
          LET sat1_name == find.sample_satellites[find.i]
              sat2_name == find.sample_satellites[find.j]
              distance_km == DistanceAt(find.profile[Pair(sat1_name, sat2_name)], find.hours)
              cases == IF IsClose(distance_km, find.threshold_km)
                       THEN Append(find.collision_cases,
                                   [satellite1 |-> sat1_name,
                                    satellite2 |-> sat2_name,
                                    datetime |-> SampleTime(now, find.hours),
                                    distance_km |-> distance_km,
                                    hours_from_now |-> find.hours,
                                    relative_velocity_estimated |->
                                        EstimateRelativeVelocity(distance_km)])
                       ELSE find.collision_cases
          IN  /\ clock' = now
              /\ IF IsClose(distance_km, find.threshold_km) /\ Len(cases) >= EnoughCases
                 THEN find' = [find EXCEPT !.collision_cases = cases,
                                           !.pc = "done",
                                           !.result = cases]
                 ELSE find' = [find EXCEPT !.collision_cases = cases,
                                           !.hours = find.hours + 2]
    /\ UNCHANGED <<decision, maneuver, satellites, screen, network_nodes, current_routes,
                 constellation, analyzer, response>>

\* One iteration of the loop over hours in which the propagator raises: the
\* handler around the loop over hours runs `continue`, so the loops move to the
\* next pair.
FindSampleRaises ==
    /\ find.op = "find_collision_cases" /\ find.pc = "loop"
    /\ find.i # 0
    /\ InRange2(find.hours, find.days_ahead)
    /\ find.failures < MaxFailures
    /\ LET pos == NextFreshPair(find.i, find.j, find.sample_satellites, find.analyzed_pairs)
       IN  find' = [find EXCEPT
               !.failures = find.failures + 1,
               !.analyzed_pairs = Analyzed(find.analyzed_pairs, find.sample_satellites, pos),
               !.examined = Examined(find.examined, find.sample_satellites, pos),
               !.i = pos[1],
               !.j = pos[2],
               !.hours = 0]
    /\ UNCHANGED <<decision, maneuver, satellites, clock, screen, network_nodes, current_routes,
                 constellation, analyzer, response>>

\* The loop over hours is over for the pair (i, j): the loops move to the next
\* pair.
FindNextPair ==
    /\ find.op = "find_collision_cases" /\ find.pc = "loop"
    /\ find.i # 0
    /\ ~InRange2(find.hours, find.days_ahead)
    /\ LET pos == NextFreshPair(find.i, find.j, find.sample_satellites, find.analyzed_pairs)
       IN  find' = [find EXCEPT
               !.analyzed_pairs = Analyzed(find.analyzed_pairs, find.sample_satellites, pos),
               !.examined = Examined(find.examined, find.sample_satellites, pos),
               !.i = pos[1],
               !.j = pos[2],
               !.hours = 0]
    /\ UNCHANGED <<decision, maneuver, satellites, clock, screen, network_nodes, current_routes,
                 constellation, analyzer, response>>

\* Both loops are exhausted: the collected cases are returned.
FindFinish ==
    /\ find.op = "find_collision_cases" /\ find.pc = "loop"
    /\ find.i = 0
    /\ find' = [find EXCEPT !.pc = "done", !.result = find.collision_cases]
    /\ UNCHANGED <<decision, maneuver, satellites, clock, screen, network_nodes, current_routes,
                 constellation, analyzer, response>>

\* The user interrupts the search (KeyboardInterrupt, the cancellation main
\* handles): the exception is not an Exception, so it passes both handlers of
\* find_collision_cases and leaves it and demonstrate_collision_case; main
\* prints that the search was cancelled.  Nothing is returned and the locals
\* are discarded; discarded keeps the number of cases collected until then.
FindInterrupted ==
    /\ find.op = "find_collision_cases" /\ find.pc = "loop"
    /\ find' = [find EXCEPT
           !.pc = "interrupted",
           !.discarded = Len(find.collision_cases),
           !.collision_cases = << >>,
           !.sample_satellites = << >>,
           !.analyzed_pairs = {},
           !.examined = << >>,
           !.i = 0,
           !.j = 0,
           !.hours = 0,
           !.failures = 0]
    /\ UNCHANGED <<decision, maneuver, satellites, clock, screen, network_nodes, current_routes,
                 constellation, analyzer, response>>

NextFind ==
    \/ FindStart
    \/ FindSample
    \/ FindSampleRaises
    \/ FindNextPair
    \/ FindFinish
    \/ FindInterrupted

SpecFind == InitFind /\ [][NextFind]_vars


(***************************************************************************)
(* Properties of the exhaustive search (checked under SpecFind)            *)
(***************************************************************************)
\* find_collision_cases has returned its list to the caller.
FindReturned == find.op = "find_collision_cases" /\ find.pc = "done"

\* C16: when the cancellation signal arrives during find_collision_cases, the
\* search returns to its caller the events collected so far: none of the
\* collected events is lost.
C16_CancellationReturnsCollected ==
    (find.op = "find_collision_cases" /\ find.pc = "interrupted") =>
        (find.result # NoData /\ find.discarded = 0)

\* C20 (find_collision_cases): the returned event sequence is chronological:
\* timestamps never decrease along it.
C20_EventsChronological ==
    FindReturned =>
        \A a, b \in 1..Len(find.result) :
            (a < b) => (find.result[a].datetime <= find.result[b].datetime)


\* C25: find_collision_cases stops as soon as its budget of 5 events is
\* reached: it never holds or returns more than 5 events; once the fifth event
\* is collected the search has returned, the fifth event being that of the last
\* sample examined; and each unordered pair of objects is examined at most once.
C25_StopsAtEventBudget ==
    (find.op = "find_collision_cases") =>
        /\ Len(find.collision_cases) <= 5
        /\ FindReturned => (Len(find.result) <= 5 /\ find.result = find.collision_cases)
        /\ (Len(find.collision_cases) = 5) =>
               /\ FindReturned
               /\ find.result[5].hours_from_now = find.hours
               /\ {find.result[5].satellite1, find.result[5].satellite2} =
                      {find.sample_satellites[find.i], find.sample_satellites[find.j]}
               /\ find.examined[Len(find.examined)] =
                      {find.result[5].satellite1, find.result[5].satellite2}
        /\ \A a, b \in 1..Len(find.examined) :
               (a # b) => (find.examined[a] # find.examined[b])
        /\ \A a \in 1..Len(find.examined) : Cardinality(find.examined[a]) = 2
        /\ \A a \in 1..Len(find.collision_cases) :
               {find.collision_cases[a].satellite1, find.collision_cases[a].satellite2}
                   \in {find.examined[b] : b \in 1..Len(find.examined)}

\* C25 witness: on a catalog of three objects all within the threshold the
\* search returns with the fifth case of the first pair, at hours = 8 of 24,
\* and the other two pairs are never examined.
C25_Witness ==
    /\ FindReturned
    /\ find.days_ahead = 1 /\ find.max_satellites = 200
    /\ Len(find.result) = 5
    /\ find.hours = 8
    /\ find.examined = << {Catalog[1], Catalog[2]} >>

(***************************************************************************)
(* The four operations against the state they share                        *)
(***************************************************************************)
\* The event list an earlier run of analyze_collision_risk returned and its
\* caller still holds: none, or one event of the day before.
EarlierEvents ==
    {<< >>, <<[datetime |-> -86400, satellite2 |-> Catalog[2], distance_km |-> 5]>>}

\* The list an earlier run of find_collision_cases returned: none, or one case
\* of the day before.
EarlierCases ==
    {<< >>,
     <<[satellite1 |-> Catalog[1], satellite2 |-> Catalog[2], datetime |-> -86400,
        distance_km |-> 40, hours_from_now |-> 0,
        relative_velocity_estimated |-> EstimateRelativeVelocity(40)]>>}

\* The calls made after an earlier run: one of determine_thrust_aware_routing,
\* calculate_maneuver_time, analyze_collision_risk or find_collision_cases.
FrameCalls ==
    ({c \in RoutingCalls : c.propellant \in {30, 600}}
        \X {ManeuverIdle} \X {ScreenIdle} \X {FindIdle})
    \cup ({DecisionIdle}
        \X {c \in ManeuverCalls : c.v_rel \in {0, 8200000} /\ c.R_req = 1000000
                                   /\ c.k = 1 /\ c.n = 3}
        \X {ScreenIdle} \X {FindIdle})
    \cup ({DecisionIdle} \X {ManeuverIdle}
        \X {[c EXCEPT !.earlier = e] :
                c \in {x \in AnalyzeCalls : x.threshold_km = 100 /\ x.days_ahead = 1},
                e \in EarlierEvents}
        \X {FindIdle})
    \cup ({DecisionIdle} \X {ManeuverIdle} \X {ScreenIdle}
        \X {[c EXCEPT !.earlier = e] :
                c \in {x \in FindCalls : x.max_satellites = 200 /\ x.days_ahead = 1},
                e \in EarlierCases})

InitFrame ==
    /\ satellites = Catalog
    /\ clock = 0
    /\ network_nodes = << >>
    /\ current_routes = << >>
    /\ constellation = ConstellationIdle
    /\ analyzer = NoAnalyzer
    /\ response = NoResponse
    /\ \E c \in FrameCalls :
           /\ decision = c[1]
           /\ maneuver = c[2]
           /\ screen = c[3]
           /\ find = c[4]

NextFrame ==
    \/ DetermineThrustAwareRoutingCall
    \/ CalculateManeuverTimeCall
    \/ AnalyzeStart
    \/ AnalyzeSample
    \/ AnalyzeSampleRaises
    \/ AnalyzeFinish
    \/ FindStart
    \/ FindSample
    \/ FindSampleRaises
    \/ FindNextPair
    \/ FindFinish
    \/ FindInterrupted

SpecFrame == InitFrame /\ [][NextFrame]_vars

\* C18: analyze_collision_risk, find_collision_cases, calculate_maneuver_time
\* and determine_thrust_aware_routing hold no cross-call mutable state: every
\* step of theirs leaves the catalog, network_nodes and current_routes
\* unchanged, leaves the list an earlier run returned unchanged, and each
\* screening run starts from its own empty event collection, so that no event
\* of an earlier run is in what it returns.
C18_NoCrossCallState ==
    [][/\ satellites' = satellites
       /\ network_nodes' = network_nodes
       /\ current_routes' = current_routes
       /\ (screen.op = "analyze_collision_risk") =>
              /\ screen'.earlier = screen.earlier
              /\ (screen.pc = "call" /\ screen'.pc = "loop")
                     => screen'.close_encounters = << >>
              /\ (screen'.pc = "done" /\ ~IsError(screen'.result))
                     => \A a \in 1..Len(screen'.result.close_encounters) :
                            \A b \in 1..Len(screen.earlier) :
                                screen'.result.close_encounters[a] # screen.earlier[b]
       /\ (find.op = "find_collision_cases") =>
              /\ find'.earlier = find.earlier
              /\ (find.pc = "call" /\ find'.pc = "loop")
                     => find'.collision_cases = << >>
              /\ (find'.pc = "done")
                     => \A a \in 1..Len(find'.result) :
                            \A b \in 1..Len(find.earlier) :
                                find'.result[a] # find.earlier[b]
      ]_vars

\* C18 witness: a screening run made after an earlier run that had returned an
\* event has itself returned events, all of them of its own samples, with the
\* catalog and the ISL system's collections as they were.
C18_Witness ==
    /\ Assessed
    /\ screen.earlier # << >>
    /\ screen.result.close_encounters # << >>
    /\ \A a \in 1..Len(screen.result.close_encounters) :
           screen.result.close_encounters[a].datetime >= screen.start
    /\ satellites = Catalog
    /\ network_nodes = << >>
    /\ current_routes = << >>
    /\ constellation = ConstellationIdle
    /\ analyzer = NoAnalyzer
    /\ response = NoResponse

(***************************************************************************)
(* ISLControlSystem.simulate_constellation_response                        *)
(*   capacity and fuel in hundredths of a percent as sampled, in tenths of *)
(*   a percent as formatted, in thousandths of the whole as parsed.        *)
(***************************************************************************)
\* constellation_size: int = 5
DefaultConstellationSize == 5

\* The constellation sizes passed: the default and a smaller one.
ConstellationSizes == {3, DefaultConstellationSize}

\* f"IENAI_SAT_{i+1:02d}" for i = 0, 1, ...
PeerNames == <<"IENAI_SAT_01", "IENAI_SAT_02", "IENAI_SAT_03", "IENAI_SAT_04", "IENAI_SAT_05">>

SatId(i) == PeerNames[i + 1]

\* Values of np.random.uniform(0.6, 1.0): 60.00 %, 60.04 %, 60.06 %, 99.96 %.
SampledCapacities == {6000, 6004, 6006, 9996}

\* Values of np.random.uniform(0.1, 0.9): 10.00 % and 89.99 %.
SampledFuels == {1000, 8999}

\* f"{x*100:.1f}%": the nearest tenth of a percent (the sampled values give no tie).
FormatPercent(x) == [percent_tenths |-> (x + 5) \div 10]

\* float(s.rstrip('%'))/100, in thousandths.
ParsePercent(s) == s.percent_tenths

\* The response of one peer.
PeerResponse(sat_id, sat_capacity, sat_fuel) ==
    [satellite_id |-> sat_id,
     available_capacity |-> FormatPercent(sat_capacity),
     fuel_level |-> FormatPercent(sat_fuel),
     can_assist |-> sat_capacity > 3000,
     priority_level |-> IF sat_capacity > 7000 THEN "HIGH" ELSE "MEDIUM"]

\* total_capacity = sum of the parsed available_capacity of the responders
RECURSIVE TotalCapacity(_)
TotalCapacity(responding_satellites) ==
    IF responding_satellites = << >> THEN 0
    ELSE ParsePercent(Head(responding_satellites).available_capacity)
         + TotalCapacity(Tail(responding_satellites))

NetworkAdaptation(total_capacity) ==
    [total_available_capacity |-> [percent_tenths |-> total_capacity],
     load_distribution |-> "AUTOMATIC",
     failover_ready |-> total_capacity > 1500,
     latency_impact |-> IF total_capacity > 2000 THEN "MINIMAL" ELSE "MODERATE"]

\* The collective decision with the capacity looked at before the urgency.
CollectiveDecisionCapacityFirst(decision_result, total_capacity) ==
    IF total_capacity > 1800 THEN "FULL_SUPPORT_GRANTED"
    ELSE IF StartsWithCritico(decision_result.urgency_level) THEN "EMERGENCY_PROTOCOL_ACTIVATED"
    ELSE "LIMITED_SUPPORT_AVAILABLE"

\* The collective decision of the constellation.
CollectiveDecision(decision_result, total_capacity) ==
    IF StartsWithCritico(decision_result.urgency_level) THEN "EMERGENCY_PROTOCOL_ACTIVATED"
    ELSE IF total_capacity > 1800 THEN "FULL_SUPPORT_GRANTED"
    ELSE "LIMITED_SUPPORT_AVAILABLE"

\* The decisions handed over: those of _make_isl_decision for each urgency
\* class, with a neighbor that is a peer of the constellation and one that is
\* not.
DecisionResults ==
    {MakeIslDecision("IENAI_SAT_01", nb, "ALTO", t, 600, NoData) :
        nb \in {"IENAI_SAT_02", "STARLINK-1008"},
        t \in {Quantity(1, 2, 1), Quantity(1, 1, 1), Quantity(6, 1, 1), Infinite}}

\* The calls of simulate_constellation_response about to be made.
ConstellationCalls ==
    {[op |-> "simulate_constellation_response", pc |-> "call", decision_result |-> d,
      constellation_size |-> k, i |-> 0, responding_satellites |-> << >>,
      result |-> NoData] :
        d \in DecisionResults, k \in ConstellationSizes}

InitConstellation ==
    /\ constellation \in ConstellationCalls
    /\ decision = DecisionIdle
    /\ maneuver = ManeuverIdle
    /\ satellites = Catalog
    /\ clock = 0
    /\ screen = ScreenIdle
    /\ find = FindIdle
    /\ network_nodes = << >>
    /\ current_routes = << >>
    /\ analyzer = NoAnalyzer
    /\ response = NoResponse

\* simulate_constellation_response is entered: the response starts with no
\* responding satellites.
ConstellationStart ==
    /\ constellation.op = "simulate_constellation_response" /\ constellation.pc = "call"
    /\ constellation' = [constellation EXCEPT
           !.pc = "loop", !.i = 0, !.responding_satellites = << >>]
    /\ UNCHANGED <<decision, maneuver, satellites, clock, screen, find, network_nodes,
                   current_routes, analyzer, response>>

\* One iteration of the loop for a peer that is the decision's target
\* satellite: nothing is appended.
ConstellationPeerSkipped ==
    /\ constellation.op = "simulate_constellation_response" /\ constellation.pc = "loop"
    /\ constellation.i < constellation.constellation_size
    /\ SatId(constellation.i) = Get(constellation.decision_result, "target_satellite", "")
    /\ constellation' = [constellation EXCEPT !.i = constellation.i + 1]
    /\ UNCHANGED <<decision, maneuver, satellites, clock, screen, find, network_nodes,
                   current_routes, analyzer, response>>

\* One iteration of the loop in which every peer responds, the target too.
ConstellationPeerRespondsTargetToo ==
    /\ constellation.op = "simulate_constellation_response" /\ constellation.pc = "loop"
    /\ constellation.i < constellation.constellation_size
    /\ \E sat_capacity \in SampledCapacities, sat_fuel \in SampledFuels :
          constellation' = [constellation EXCEPT
              !.i = constellation.i + 1,
              !.responding_satellites =
                  Append(constellation.responding_satellites,
                         PeerResponse(SatId(constellation.i), sat_capacity, sat_fuel))]
    /\ UNCHANGED <<decision, maneuver, satellites, clock, screen, find, network_nodes,
                   current_routes, analyzer, response>>

\* One iteration of the loop for any other peer: its capacity and fuel are
\* sampled and its response appended.
ConstellationPeerResponds ==
    /\ constellation.op = "simulate_constellation_response" /\ constellation.pc = "loop"
    /\ constellation.i < constellation.constellation_size
    /\ SatId(constellation.i) # Get(constellation.decision_result, "target_satellite", "")
    /\ \E sat_capacity \in SampledCapacities, sat_fuel \in SampledFuels :
          constellation' = [constellation EXCEPT
              !.i = constellation.i + 1,
              !.responding_satellites =
                  Append(constellation.responding_satellites,
                         PeerResponse(SatId(constellation.i), sat_capacity, sat_fuel))]
    /\ UNCHANGED <<decision, maneuver, satellites, clock, screen, find, network_nodes,
                   current_routes, analyzer, response>>

\* The loop is over: the network adaptation and the collective decision are
\* computed and the response returned.
ConstellationFinish ==
    /\ constellation.op = "simulate_constellation_response" /\ constellation.pc = "loop"
    /\ constellation.i = constellation.constellation_size
    /\ LET total_capacity == TotalCapacity(constellation.responding_satellites)
       IN  constellation' = [constellation EXCEPT
               !.pc = "done",
               !.result =
                   [constellation_id |-> "IENAI_NETWORK_ALPHA",
                    total_satellites |-> constellation.constellation_size,
                    responding_satellites |-> constellation.responding_satellites,
                    network_adaptation |-> NetworkAdaptation(total_capacity),
                    collective_decision |->
                        CollectiveDecision(constellation.decision_result, total_capacity)]]
    /\ UNCHANGED <<decision, maneuver, satellites, clock, screen, find, network_nodes,
                   current_routes, analyzer, response>>

NextConstellation ==
    \/ ConstellationStart
    \/ ConstellationPeerSkipped
    \/ ConstellationPeerResponds
    \/ ConstellationFinish

SpecConstellation == InitConstellation /\ [][NextConstellation]_vars

(***************************************************************************)
(* Properties of the constellation response (checked under                 *)
(* SpecConstellation)                                                      *)
(***************************************************************************)
ConstellationDone ==
    constellation.op = "simulate_constellation_response" /\ constellation.pc = "done"

\* The aggregate available capacity the responders report, in thousandths:
\* the sum of their available_capacity.
RECURSIVE ReportedCapacity(_, _)
ReportedCapacity(responding_satellites, n) ==
    IF n = 0 THEN 0
    ELSE responding_satellites[n].available_capacity.percent_tenths
         + ReportedCapacity(responding_satellites, n - 1)

AggregateCapacity ==
    ReportedCapacity(constellation.result.responding_satellites,
                     Len(constellation.result.responding_satellites))

\* The decision handed over has urgency IMMEDIATE or SHORT_TERM.
UrgencyCritical ==
    constellation.decision_result.urgency_level
        \in {"CRITICO_INMEDIATO", "CRITICO_CORTO_PLAZO"}

\* C23: the collective decision of simulate_constellation_response is
\* EMERGENCY_PROTOCOL_ACTIVATED when the decision's urgency is IMMEDIATE or
\* SHORT_TERM; otherwise FULL_SUPPORT_GRANTED when the aggregate available
\* capacity of the responding peers exceeds 1.8, and LIMITED_SUPPORT_AVAILABLE
\* otherwise.
C23_CollectiveDecision ==
    ConstellationDone =>
        constellation.result.collective_decision =
            IF UrgencyCritical THEN "EMERGENCY_PROTOCOL_ACTIVATED"
            ELSE IF AggregateCapacity > 1800 THEN "FULL_SUPPORT_GRANTED"
            ELSE "LIMITED_SUPPORT_AVAILABLE"

\* C23 witness: a MODERATE decision and three peers that report 60.0 % each:
\* the aggregate is 1.8, not above it, and the support is limited.
C23_Witness ==
    /\ ConstellationDone
    /\ constellation.decision_result.urgency_level = "MODERADO"
    /\ Len(constellation.result.responding_satellites) = 3
    /\ AggregateCapacity = 1800
    /\ constellation.result.collective_decision = "LIMITED_SUPPORT_AVAILABLE"

\* The peers of the constellation other than the decision's target satellite.
OtherPeers ==
    {i \in 0..(constellation.constellation_size - 1) :
        SatId(i) # constellation.decision_result.target_satellite}

\* C28: the peer named as the decision's target satellite never appears among
\* the responders; every other peer IENAI_SAT_01..K responds exactly once, with
\* a capacity in [0.6, 1.0] and can_assist true; so with the default
\* constellation size 5 and a decision that is not IMMEDIATE/SHORT_TERM the
\* aggregate capacity is at least 2.4 and the collective decision is
\* FULL_SUPPORT_GRANTED, never LIMITED_SUPPORT_AVAILABLE.
C28_PeersRespondOnce ==
    ConstellationDone =>
        LET r == constellation.result.responding_satellites
        IN  /\ \A n \in 1..Len(r) :
                   /\ r[n].satellite_id # constellation.decision_result.target_satellite
                   /\ 600 <= r[n].available_capacity.percent_tenths
                   /\ r[n].available_capacity.percent_tenths <= 1000
                   /\ r[n].can_assist = TRUE
            /\ \A i \in OtherPeers :
                   Cardinality({n \in 1..Len(r) : r[n].satellite_id = SatId(i)}) = 1
            /\ Len(r) = Cardinality(OtherPeers)
            /\ (constellation.constellation_size = 5 /\ ~UrgencyCritical) =>
                   /\ AggregateCapacity >= 2400
                   /\ constellation.result.collective_decision = "FULL_SUPPORT_GRANTED"

\* C28 witness: a LOW decision whose target IENAI_SAT_02 is one of five peers;
\* the four others report 60.0 % each, 2.4 in all, and full support is granted.
C28_Witness ==
    /\ ConstellationDone
    /\ constellation.constellation_size = 5
    /\ constellation.decision_result.urgency_level = "BAJO"
    /\ constellation.decision_result.target_satellite = "IENAI_SAT_02"
    /\ Len(constellation.result.responding_satellites) = 4
    /\ AggregateCapacity = 2400
    /\ constellation.result.collective_decision = "FULL_SUPPORT_GRANTED"

(***************************************************************************)
(* web_api: the request handlers and the global analyzer                   *)
(*   The analyzer class is imported from another module; its constructor   *)
(*   and methods either return or raise.                                   *)
(***************************************************************************)
\* Most analyzer objects constructed in one run of the server.
MaxInstances == 3

ErrNotInitialized == "Analizador no inicializado"

ErrCollisionDataRequired == "Datos de colision requeridos"

\* len(analyzer.satellites) after load_satellite_data() returned True
LoadedCounts == {1, 3}

\* The response of a handler that reports no status fields.
Answer(endpoint, code, success, error, calls, succeeded) ==
    [endpoint |-> endpoint, code |-> code, success |-> success, error |-> error,
     analyzer_initialized |-> FALSE, satellites_loaded |-> 0, before |-> analyzer,
     calls |-> calls, succeeded |-> succeeded]

\* The guard at the head of three handlers: `if analyzer is None` answers 400.
NotInitialized(endpoint) ==
    Answer(endpoint, 400, FALSE, ErrNotInitialized, 0, response.succeeded)

InitWeb ==
    /\ analyzer = NoAnalyzer
    /\ response = NoResponse
    /\ constellation = ConstellationIdle
    /\ decision = DecisionIdle
    /\ maneuver = ManeuverIdle
    /\ satellites = Catalog
    /\ clock = 0
    /\ screen = ScreenIdle
    /\ find = FindIdle
    /\ network_nodes = << >>
    /\ current_routes = << >>

\* GET /: the page or the notice that the page is missing.
Index ==
    /\ response' = Answer("/", 200, TRUE, "none", 0, response.succeeded)
    /\ UNCHANGED <<decision, maneuver, satellites, clock, screen, find, network_nodes,
                   current_routes, constellation, analyzer>>

\* POST /api/initialize: the constructor returns and the new object is stored,
\* or it raises and the handler answers 500.
InitializeAnalyzer ==
    /\ \/ /\ analyzer.instance < MaxInstances
          /\ analyzer' = [instance |-> analyzer.instance + 1, satellites |-> 0]
          /\ response' = Answer("/api/initialize", 200, TRUE, "none", 0, TRUE)
       \/ /\ analyzer' = analyzer
          /\ response' = Answer("/api/initialize", 500, FALSE,
                                "Error inicializando analizador", 0, response.succeeded)
    /\ UNCHANGED <<decision, maneuver, satellites, clock, screen, find, network_nodes,
                   current_routes, constellation>>

\* POST /api/load_satellites with the guard left out: the analyzer is used as
\* it is found, and using None raises inside the try block.
LoadSatellitesUnguarded ==
    /\ \/ /\ analyzer = NoAnalyzer
          /\ analyzer' = analyzer
          /\ response' = Answer("/api/load_satellites", 500, FALSE,
                                "Error cargando satelites", 1, response.succeeded)
       \/ /\ analyzer # NoAnalyzer
          /\ \E n \in LoadedCounts :
                /\ analyzer' = [analyzer EXCEPT !.satellites = n]
                /\ response' = Answer("/api/load_satellites", 200, TRUE, "none", 1,
                                      response.succeeded)
    /\ UNCHANGED <<decision, maneuver, satellites, clock, screen, find, network_nodes,
                   current_routes, constellation>>

\* POST /api/load_satellites: 400 without an analyzer; otherwise
\* analyzer.load_satellite_data() returns True (the catalog is loaded), returns
\* False, or raises.
LoadSatellites ==
    /\ \/ /\ analyzer = NoAnalyzer
          /\ analyzer' = analyzer
          /\ response' = NotInitialized("/api/load_satellites")
       \/ /\ analyzer # NoAnalyzer
          /\ \/ \E n \in LoadedCounts :
                   /\ analyzer' = [analyzer EXCEPT !.satellites = n]
                   /\ response' = Answer("/api/load_satellites", 200, TRUE, "none", 1,
                                         response.succeeded)
             \/ /\ analyzer' = analyzer
                /\ response' = Answer("/api/load_satellites", 500, FALSE,
                                      "No se pudieron cargar los satelites", 1,
                                      response.succeeded)
             \/ /\ analyzer' = analyzer
                /\ response' = Answer("/api/load_satellites", 500, FALSE,
                                      "Error cargando satelites", 1, response.succeeded)
    /\ UNCHANGED <<decision, maneuver, satellites, clock, screen, find, network_nodes,
                   current_routes, constellation>>

\* POST /api/analyze_collision/<target_id>: 400 without an analyzer; otherwise
\* analyzer.analyze_collision_scenario() returns or raises.
AnalyzeCollision ==
    /\ \/ /\ analyzer = NoAnalyzer
          /\ response' = NotInitialized("/api/analyze_collision")
       \/ /\ analyzer # NoAnalyzer
          /\ \/ response' = Answer("/api/analyze_collision", 200, TRUE, "none", 1,
                                   response.succeeded)
             \/ response' = Answer("/api/analyze_collision", 500, FALSE,
                                   "Error en analisis", 1, response.succeeded)
    /\ UNCHANGED <<decision, maneuver, satellites, clock, screen, find, network_nodes,
                   current_routes, constellation, analyzer>>

\* POST /api/calculate_maneuver: 400 without an analyzer; otherwise the body is
\* read: no JSON body raises on data.get (500), a body without collision_data
\* answers 400, and with collision_data analyzer.calculate_maneuver_time()
\* returns or raises.
CalculateManeuver ==
    /\ \/ /\ analyzer = NoAnalyzer
          /\ response' = NotInitialized("/api/calculate_maneuver")
       \/ /\ analyzer # NoAnalyzer
          /\ \/ response' = Answer("/api/calculate_maneuver", 500, FALSE,
                                   "Error calculando maniobra", 0, response.succeeded)
             \/ response' = Answer("/api/calculate_maneuver", 400, FALSE,
                                   ErrCollisionDataRequired, 0, response.succeeded)
             \/ response' = Answer("/api/calculate_maneuver", 200, TRUE, "none", 1,
                                   response.succeeded)
             \/ response' = Answer("/api/calculate_maneuver", 500, FALSE,
                                   "Error calculando maniobra", 1, response.succeeded)
    /\ UNCHANGED <<decision, maneuver, satellites, clock, screen, find, network_nodes,
                   current_routes, constellation, analyzer>>

\* GET /api/status
Status ==
    /\ response' = [Answer("/api/status", 200, TRUE, "none", 0, response.succeeded)
                       EXCEPT !.analyzer_initialized = (analyzer # NoAnalyzer),
                              !.satellites_loaded =
                                  IF analyzer # NoAnalyzer THEN analyzer.satellites ELSE 0]
    /\ UNCHANGED <<decision, maneuver, satellites, clock, screen, find, network_nodes,
                   current_routes, constellation, analyzer>>

NextWeb ==
    \/ Index
    \/ InitializeAnalyzer
    \/ LoadSatellites
    \/ AnalyzeCollision
    \/ CalculateManeuver
    \/ Status

SpecWeb == InitWeb /\ [][NextWeb]_vars

(***************************************************************************)
(* Properties of the web API (checked under SpecWeb)                       *)
(***************************************************************************)
\* The endpoints that need the analyzer.
GuardedEndpoints ==
    {"/api/load_satellites", "/api/analyze_collision", "/api/calculate_maneuver"}

\* C30: for any sequence of requests, /api/load_satellites,
\* /api/analyze_collision and /api/calculate_maneuver answer 400 'Analizador no
\* inicializado' without touching the analyzer until some /api/initialize
\* request has succeeded; /api/status reports analyzer_initialized true exactly
\* from that point on; and a failed /api/initialize leaves the previously
\* stored analyzer unchanged.
C30_GuardedUntilInitialized ==
    /\ (response.endpoint \in GuardedEndpoints /\ ~response.succeeded) =>
           /\ response.code = 400
           /\ response.error = "Analizador no inicializado"
           /\ response.calls = 0
           /\ analyzer = response.before
    /\ (response.endpoint \in GuardedEndpoints /\ response.succeeded) =>
           ~(response.code = 400 /\ response.error = "Analizador no inicializado")
    /\ (response.endpoint = "/api/status") =>
           (response.analyzer_initialized <=> response.succeeded)
    /\ (response.endpoint = "/api/initialize" /\ ~response.success) =>
           (response.code = 500 /\ analyzer = response.before)
    /\ (response.endpoint = "/api/initialize" /\ response.success) =>
           (response.succeeded /\ analyzer # response.before /\ analyzer.instance > 0)
    /\ response.succeeded <=> (analyzer.instance > 0)

\* C30 witness: after an initialization and a load of three satellites a
\* second /api/initialize fails with 500: the stored analyzer is still the
\* first one with its three satellites.
C30_Witness ==
    /\ response.endpoint = "/api/initialize"
    /\ response.code = 500
    /\ response.succeeded
    /\ response.before = [instance |-> 1, satellites |-> 3]
    /\ analyzer = [instance |-> 1, satellites |-> 3]

=============================================================================
